---------------------------- MODULE Spec2Model ----------------------------
(***************************************************************************)
(* Retrieval-and-scoring pipeline of BuiltEnvironment.ai:                  *)
(*   chunking_service.py, chromadb_service.py, rag_service.py (backend)    *)
(*   regulation_checker.py, confidence_calculator.py,                      *)
(*   traffic_light_scorer.py, document_classifier.py (langflow components).*)
(*                                                                         *)
(* Texts are sequences of one-character strings.  Real numbers are exact   *)
(* rationals [n |-> numerator, d |-> denominator].                         *)
(***************************************************************************)
EXTENDS Integers, Sequences, FiniteSets, TLC

VARIABLES
    (* ChunkingService *)
    text,            \* the text handed to chunk_document
    chunks,          \* the list of chunk texts chunk_document returned
    chunk_pc,        \* "input" before the call, "done" after it
    (* ConfidenceCalculator and TrafficLightScorer *)
    findings,             \* the findings produced for one document so far
    calibrated_findings,  \* ConfidenceCalculator.build's calibrated_findings
    calc_args,            \* the arguments of that build call
    scored_findings,      \* TrafficLightScorer.build's scored_findings
    overall_status,       \* TrafficLightScorer.build's overall_status
    score_args,           \* the arguments of that build call
    calib_in,             \* the arguments of a direct _calibrate_confidence call
    calib_out,            \* the value that call returned
    score_pc,             \* "off", "input", "calibrated", "scored", "unit"
    (* RegulationChecker *)
    document_text,        \* the document text handed to the checker
    requirements_list,    \* the parsed regulation_requirements handed to build
    build_result,         \* what RegulationChecker.build returned
    checked_requirement,  \* the requirement of a direct _check_requirement call
    checked_finding,      \* the finding that call returned
    reg_pc,               \* "off", "input", "built", "checked"
    (* DocumentClassifier *)
    classified_text,      \* the text handed to _classify_document_type
    classified_filename,  \* the filename handed to it
    document_type,        \* what the call returned, or the exception it raised
    classify_pc,          \* "off", "input", "done"
    (* ChromaDBService and RAGService *)
    chroma_collections,   \* the keys of ChromaDBService._collections
    store,                \* the units each collection holds on the server
    on_duplicate,         \* what collection.add does with ids already stored
    index_calls,          \* the number of index_document (or direct add) calls so far
    last_call,            \* the last call made on the services, with its arguments
    last_result,          \* what that call returned
    (* EvidenceExtractor *)
    evidence_document,    \* the document text handed to the extractor
    evidence_call,        \* the finding and max_quotes of the call made
    evidence_items,       \* what _extract_evidence_for_finding returned
    evidence_pc,          \* "off", "input", "done"
    (* DocumentClassifier routing *)
    routing_text,         \* the text handed to the classifier
    routing_filename,     \* the filename handed to it
    routing_call,         \* the call made on the classifier
    routing_result,       \* what that call returned
    routing_pc,           \* "off", "input", "built", "prioritized", "indexed"
    (* FireSafetyAgent and run_ai_analysis *)
    agent_findings,       \* state["compliance_findings"] of the agent
    agent_verdict,        \* what determine_overall_status set in the state
    stored_findings,      \* document.compliance_findings as stored
    agent_pc,             \* "off", "input", "determined", "stored"
    (* DocumentProcessor.chunk_text *)
    proc_text,            \* the text handed to chunk_text
    proc_start,           \* the local variable start of the loop
    proc_chunks,          \* the local list chunks
    proc_iterations,      \* the number of loop iterations run so far
    proc_pc,              \* "off", "input", "loop", "done"
    (* RateLimiter *)
    rate_redis,           \* the keys <bucket>:tokens and <bucket>:last_update in Redis
    rate_now,             \* int(time.time()), counted from the start
    rate_local,           \* per caller: the position and the locals of its call
    rate_calls,           \* the number of check_rate_limit calls started
    rate_allowed,         \* the number of calls that returned allowed=True
    rate_failures,        \* the number of calls that hit a Redis error
    rate_budget,          \* the tokens the bucket held at the start
    rate_pc               \* "off", "enabled", "disabled" (self.enabled)

chunk_vars == <<text, chunks, chunk_pc>>

score_vars == <<findings, calibrated_findings, calc_args, scored_findings,
                overall_status, score_args, calib_in, calib_out, score_pc>>

reg_vars == <<document_text, requirements_list, build_result, checked_requirement,
              checked_finding, reg_pc>>

classify_vars == <<classified_text, classified_filename, document_type, classify_pc>>

index_vars == <<chroma_collections, store, on_duplicate, index_calls, last_call,
                last_result>>

evidence_vars == <<evidence_document, evidence_call, evidence_items, evidence_pc>>

\* the components of the retrieval and scoring pipeline
pipeline_vars == <<chunk_vars, score_vars, reg_vars, classify_vars, index_vars>>

\* the components around it
routing_vars == <<routing_text, routing_filename, routing_call, routing_result,
                  routing_pc>>

agent_vars == <<agent_findings, agent_verdict, stored_findings, agent_pc>>

proc_vars == <<proc_text, proc_start, proc_chunks, proc_iterations, proc_pc>>

rate_vars == <<rate_redis, rate_now, rate_local, rate_calls, rate_allowed,
               rate_failures, rate_budget, rate_pc>>

edge_vars == <<proc_vars, rate_vars>>

late_vars == <<evidence_vars, routing_vars, agent_vars, edge_vars>>

vars == <<pipeline_vars, late_vars>>

other_than_chunk == <<score_vars, reg_vars, classify_vars, index_vars, late_vars>>

other_than_score == <<chunk_vars, reg_vars, classify_vars, index_vars, late_vars>>

other_than_reg == <<chunk_vars, score_vars, classify_vars, index_vars, late_vars>>

other_than_index == <<chunk_vars, score_vars, reg_vars, classify_vars, late_vars>>

other_than_classify == <<chunk_vars, score_vars, reg_vars, index_vars, late_vars>>

---------------------------------------------------------------------------
(* Small helpers on sequences                                              *)

Min(a, b) == IF a <= b THEN a ELSE b

Max(a, b) == IF a >= b THEN a ELSE b

\* s[from..] (Python s[from-1:]), empty when from is past the end
Drop(s, from) == IF from > Len(s) THEN <<>> ELSE SubSeq(s, from, Len(s))

\* Python s[-k:] for k >= 0 (s[-0:] is the whole of s)
LastChars(s, k) ==
    IF k = 0 \/ k >= Len(s) THEN s ELSE SubSeq(s, Len(s) - k + 1, Len(s))

RECURSIVE AllSeqs(_, _)
AllSeqs(S, n) ==
    IF n = 0 THEN {<<>>}
    ELSE LET shorter == AllSeqs(S, n - 1)
         IN  shorter \cup {Append(s, c) : s \in {t \in shorter : Len(t) = n - 1}, c \in S}

---------------------------------------------------------------------------
(* Exact rationals: [n |-> numerator, d |-> denominator], d > 0            *)

RECURSIVE GCD(_, _)
GCD(a, b) == IF b = 0 THEN a ELSE GCD(b, a % b)

Abs(x) == IF x < 0 THEN -x ELSE x

Norm(r) ==
    LET g == GCD(Abs(r.n), r.d)
    IN  [n |-> r.n \div g, d |-> r.d \div g]

R(a, b) == Norm([n |-> a, d |-> b])

RAdd(x, y) == Norm([n |-> x.n * y.d + y.n * x.d, d |-> x.d * y.d])

RMul(x, y) == Norm([n |-> x.n * y.n, d |-> x.d * y.d])

RLe(x, y) == x.n * y.d <= y.n * x.d

RLt(x, y) == x.n * y.d < y.n * x.d

RGe(x, y) == RLe(y, x)

RMin(x, y) == IF RLe(x, y) THEN x ELSE y

RMax(x, y) == IF RGe(x, y) THEN x ELSE y

\* x / k for an integer k > 0
RDivInt(x, k) == Norm([n |-> x.n, d |-> x.d * k])

\* Python round(x, digits) for x >= 0, by long division one decimal digit at
\* a time; an exact tie goes to the even digit
RECURSIVE RoundDigits(_, _, _, _)
RoundDigits(q, rem, d, digits) ==
    IF digits = 0
    THEN IF 2 * rem > d \/ (2 * rem = d /\ q % 2 = 1) THEN q + 1 ELSE q
    ELSE RoundDigits(10 * q + ((10 * rem) \div d), (10 * rem) % d, d, digits - 1)

RECURSIVE Pow10(_)
Pow10(k) == IF k = 0 THEN 1 ELSE 10 * Pow10(k - 1)

round(x, digits) == R(RoundDigits(x.n \div x.d, x.n % x.d, x.d, digits), Pow10(digits))

\* dict.get(key, default)
Get(dict, key, default) == IF key \in DOMAIN dict THEN dict[key] ELSE default

\* {**first, **second}: the keys of second override those of first
Merge(first, second) ==
    [k \in DOMAIN first \cup DOMAIN second |->
        IF k \in DOMAIN second THEN second[k] ELSE first[k]]

\* pattern occurs in s as a contiguous run (Python's "pattern in s")
Contains(s, pattern) ==
    \E i \in 1..(Len(s) - Len(pattern) + 1) :
        SubSeq(s, i, i + Len(pattern) - 1) = pattern

RECURSIVE SumSeq(_)
SumSeq(s) == IF s = <<>> THEN R(0, 1) ELSE RAdd(Head(s), SumSeq(Tail(s)))

---------------------------------------------------------------------------
(* ChunkingService (backend/app/services/chunking_service.py)              *)

\* scaled-down constructor arguments chunk_size, chunk_overlap, min_chunk_size
ChunkSize == 3

ChunkOverlap == 1

MinChunkSize == 2

MaxTextLen == 7

Alphabet == {"a", "b", ".", " ", "\n"}

\* Python's \s and str.strip() whitespace, restricted to the alphabet
IsSpace(c) == c \in {" ", "\n"}

RECURSIVE lstrip(_)
lstrip(s) == IF s # <<>> /\ IsSpace(Head(s)) THEN lstrip(Tail(s)) ELSE s

RECURSIVE rstrip(_)
rstrip(s) ==
    IF s # <<>> /\ IsSpace(s[Len(s)]) THEN rstrip(SubSeq(s, 1, Len(s) - 1)) ELSE s

strip(s) == rstrip(lstrip(s))

\* first index >= i of s that is not whitespace (Len(s)+1 when there is none)
RECURSIVE SkipSpace(_, _)
SkipSpace(s, i) ==
    IF i <= Len(s) /\ IsSpace(s[i]) THEN SkipSpace(s, i + 1) ELSE i

\* first index >= i of s that is not a newline
RECURSIVE SkipNewlines(_, _)
SkipNewlines(s, i) ==
    IF i <= Len(s) /\ s[i] = "\n" THEN SkipNewlines(s, i + 1) ELSE i

\* re.sub(r' +', ' ', text): a space that follows a space is dropped
RECURSIVE CollapseSpaces(_, _)
CollapseSpaces(s, i) ==
    IF i > Len(s) THEN <<>>
    ELSE (IF s[i] = " " /\ i > 1 /\ s[i - 1] = " " THEN <<>> ELSE <<s[i]>>)
         \o CollapseSpaces(s, i + 1)

\* re.sub(r'\n{3,}', '\n\n', text): a newline that follows two newlines is dropped
RECURSIVE CapNewlines(_, _)
CapNewlines(s, i) ==
    IF i > Len(s) THEN <<>>
    ELSE (IF s[i] = "\n" /\ i > 2 /\ s[i - 1] = "\n" /\ s[i - 2] = "\n"
          THEN <<>> ELSE <<s[i]>>)
         \o CapNewlines(s, i + 1)

normalize_text(t) == strip(CapNewlines(CollapseSpaces(t, 1), 1))

\* re.split(r'\n\n+', text): cut at every maximal run of two or more newlines
RECURSIVE SplitOnBlankLines(_, _, _)
SplitOnBlankLines(s, i, cur) ==
    IF i > Len(s) THEN <<cur>>
    ELSE IF s[i] = "\n" /\ i < Len(s) /\ s[i + 1] = "\n"
         THEN <<cur>> \o SplitOnBlankLines(s, SkipNewlines(s, i), <<>>)
         ELSE SplitOnBlankLines(s, i + 1, Append(cur, s[i]))

RECURSIVE StripNonEmpty(_)
StripNonEmpty(parts) ==
    IF parts = <<>> THEN <<>>
    ELSE (IF strip(Head(parts)) # <<>> THEN <<strip(Head(parts))>> ELSE <<>>)
         \o StripNonEmpty(Tail(parts))

split_into_paragraphs(t) == StripNonEmpty(SplitOnBlankLines(t, 1, <<>>))

\* re.search(r'\.\s+', s): index just past the first period-plus-whitespace
\* match, 0 when there is no match
RECURSIVE SentenceMatchEnd(_, _)
SentenceMatchEnd(s, i) ==
    IF i >= Len(s) THEN 0
    ELSE IF s[i] = "." /\ IsSpace(s[i + 1]) THEN SkipSpace(s, i + 1)
         ELSE SentenceMatchEnd(s, i + 1)

get_overlap_text(t) ==
    IF Len(t) <= ChunkOverlap THEN t
    ELSE LET overlap_text == LastChars(t, ChunkOverlap)
             m == SentenceMatchEnd(overlap_text, 1)
         IN  IF m # 0 THEN Drop(overlap_text, m) ELSE overlap_text

\* the while loop of _hard_split_text from position start (0-based)
RECURSIVE HardSplitFrom(_, _)
HardSplitFrom(t, start) ==
    IF start >= Len(t) THEN <<>>
    ELSE LET end == start + ChunkSize
             chunk == SubSeq(t, start + 1, Min(end, Len(t)))
         IN  (IF chunk # <<>> THEN <<strip(chunk)>> ELSE <<>>)
             \o HardSplitFrom(t, end - ChunkOverlap)

\* _hard_split_text with start moved to end, the pieces sharing no text
hard_split_text_without_overlap(t) ==
    [i \in 1..((Len(t) + ChunkSize - 1) \div ChunkSize) |->
        strip(SubSeq(t, (i - 1) * ChunkSize + 1, Min(i * ChunkSize, Len(t))))]

hard_split_text(t) == HardSplitFrom(t, 0)

\* re.split(r'(?<=[.!?])\s+', paragraph): cut at every whitespace run that
\* directly follows a sentence terminator
RECURSIVE SplitSentences(_, _, _)
SplitSentences(s, i, cur) ==
    IF i > Len(s) THEN <<cur>>
    ELSE IF IsSpace(s[i]) /\ i > 1 /\ s[i - 1] \in {".", "!", "?"}
         THEN <<cur>> \o SplitSentences(s, SkipSpace(s, i), <<>>)
         ELSE SplitSentences(s, i + 1, Append(cur, s[i]))

\* current += " " + sentence if current else sentence
JoinSentence(current, sentence) ==
    IF current # <<>> THEN current \o <<" ">> \o sentence ELSE sentence

\* the for loop of _split_large_paragraph over sentences[i..], then the tail
RECURSIVE SplitLargeLoop(_, _, _, _)
SplitLargeLoop(sentences, i, acc, current) ==
    IF i > Len(sentences)
    THEN IF current # <<>> THEN Append(acc, strip(current)) ELSE acc
    ELSE LET sentence == sentences[i]
         IN  IF Len(current) + Len(sentence) > ChunkSize
             THEN LET acc1 == IF current # <<>> THEN Append(acc, strip(current)) ELSE acc
                      cur1 == IF current # <<>> THEN get_overlap_text(current) ELSE current
                  IN  IF Len(sentence) > ChunkSize
                      THEN LET hard_chunks == hard_split_text(sentence)
                           IN  SplitLargeLoop(sentences, i + 1,
                                   acc1 \o SubSeq(hard_chunks, 1, Len(hard_chunks) - 1),
                                   hard_chunks[Len(hard_chunks)])
                      ELSE SplitLargeLoop(sentences, i + 1, acc1,
                                          JoinSentence(cur1, sentence))
             ELSE SplitLargeLoop(sentences, i + 1, acc, JoinSentence(current, sentence))

split_large_paragraph(paragraph) ==
    SplitLargeLoop(SplitSentences(paragraph, 1, <<>>), 1, <<>>, <<>>)

\* the for loop of _build_chunks_from_paragraphs over paragraphs[i..], then
\* the final chunk
RECURSIVE BuildLoop(_, _, _, _)
BuildLoop(paragraphs, i, acc, current_chunk) ==
    IF i > Len(paragraphs)
    THEN IF current_chunk # <<>> /\ Len(current_chunk) >= MinChunkSize
         THEN Append(acc, strip(current_chunk)) ELSE acc
    ELSE LET paragraph == paragraphs[i]
             exceeds == current_chunk # <<>>
                        /\ Len(current_chunk) + Len(paragraph) > ChunkSize
             acc1 == IF exceeds THEN Append(acc, strip(current_chunk)) ELSE acc
             cur1 == IF exceeds THEN get_overlap_text(current_chunk) ELSE current_chunk
         IN  IF Len(paragraph) > ChunkSize
             THEN LET acc2 == IF cur1 # <<>> THEN Append(acc1, strip(cur1)) ELSE acc1
                      sub_chunks == split_large_paragraph(paragraph)
                  IN  BuildLoop(paragraphs, i + 1,
                                acc2 \o SubSeq(sub_chunks, 1, Len(sub_chunks) - 1),
                                sub_chunks[Len(sub_chunks)])
             ELSE BuildLoop(paragraphs, i + 1, acc1,
                            IF cur1 # <<>> THEN cur1 \o <<"\n", "\n">> \o paragraph
                            ELSE paragraph)

build_chunks_from_paragraphs(paragraphs) == BuildLoop(paragraphs, 1, <<>>, <<>>)

\* the chunk texts of chunk_document, in chunk_id order
chunk_document(t) ==
    IF t = <<>> \/ strip(t) = <<>> THEN <<>>
    ELSE build_chunks_from_paragraphs(split_into_paragraphs(normalize_text(t)))

\* the chunk dictionaries chunk_document builds around the chunk texts
chunk_dicts(t, metadata) ==
    LET texts == chunk_document(t)
    IN  [i \in 1..Len(texts) |->
            [chunk_id |-> i - 1,
             text |-> texts[i],
             metadata |-> Merge([chunk_index |-> i - 1,
                                 total_chunks |-> Len(texts),
                                 char_count |-> Len(texts[i])],
                                metadata)]]

\* a page marker "\n\n--- Page N ---\n\n" is one token of a text; the
\* int() of the digits it holds
PageMarkers == {"P1", "P2"}

page_number_of(marker) == IF marker = "P1" THEN 1 ELSE 2

\* re.split(page_pattern, text): the text before the first marker, then for
\* every marker its token and the text up to the next one
RECURSIVE SplitOnPageMarkers(_, _, _)
SplitOnPageMarkers(s, i, cur) ==
    IF i > Len(s) THEN <<cur>>
    ELSE IF s[i] \in PageMarkers
         THEN <<cur, s[i]>> \o SplitOnPageMarkers(s, i + 1, <<>>)
         ELSE SplitOnPageMarkers(s, i + 1, Append(cur, s[i]))

\* the (page_num, page_text) pairs chunk_with_page_context works through
page_texts(t) ==
    LET pages == SplitOnPageMarkers(t, 1, <<>>)
        first == IF strip(pages[1]) # <<>>
                 THEN <<[page_num |-> 0, page_text |-> strip(pages[1])]>>
                 ELSE <<>>
    IN  IF Len(pages) > 1
        THEN first \o [k \in 1..((Len(pages) - 1) \div 2) |->
                          [page_num |-> page_number_of(pages[2 * k]),
                           page_text |-> strip(pages[2 * k + 1])]]
        ELSE <<[page_num |-> 1, page_text |-> t]>>

\* the chunks of one page as chunk_document returns them for page_metadata
page_chunk_dicts(page, metadata) ==
    chunk_dicts(page.page_text, Merge([page_number |-> page.page_num], metadata))

\* the loop over page_texts[i..]: the chunks of a page get global_chunk_id
\* onwards as chunk_id and as chunk_index
RECURSIVE PageLoop(_, _, _, _, _)
PageLoop(pts, i, metadata, all_chunks, global_chunk_id) ==
    IF i > Len(pts) THEN all_chunks
    ELSE LET page_chunks == page_chunk_dicts(pts[i], metadata)
             renumbered ==
                 [j \in 1..Len(page_chunks) |->
                     [page_chunks[j] EXCEPT
                         !.chunk_id = global_chunk_id + j - 1,
                         !.metadata = Merge(@, [chunk_index |->
                                                   global_chunk_id + j - 1])]]
         IN  PageLoop(pts, i + 1, metadata, all_chunks \o renumbered,
                      global_chunk_id + Len(page_chunks))

chunk_with_page_context(t, metadata) == PageLoop(page_texts(t), 1, metadata, <<>>, 0)

ChunkOff ==
    /\ text = <<>>
    /\ chunks = <<>>
    /\ chunk_pc = "off"

ChunkDocument ==
    /\ chunk_pc = "input"
    /\ chunks' = chunk_document(text)
    /\ chunk_pc' = "done"
    /\ UNCHANGED <<text, other_than_chunk>>

\* ChunkingService.chunk_with_page_context
ChunkWithPageContext(metadata) ==
    /\ chunk_pc = "input"
    /\ chunks' = chunk_with_page_context(text, metadata)
    /\ chunk_pc' = "paged"
    /\ UNCHANGED <<text, other_than_chunk>>

\* the most page markers of a text
MaxPages == 2

\* what stands between the markers of the texts handed to the page-aware chunker
PageBodies == {<<>>, <<"a">>, <<"a", "b">>, <<"a", "b", ".", " ", "b", "a">>}

RECURSIVE PagedTexts(_)
PagedTexts(n) ==
    IF n = 0 THEN PageBodies
    ELSE LET shorter == PagedTexts(n - 1)
         IN  shorter \cup {t \o <<m>> \o body :
                              t \in shorter, m \in PageMarkers, body \in PageBodies}

ChunkMetadata == {<<>>, [filename |-> "plan.pdf"], [page_number |-> 7]}

---------------------------------------------------------------------------
(* ConfidenceCalculator (langflow/components/confidence_calculator.py)     *)
(* Labels and requirement texts are sequences of word tokens.              *)

\* tokens that contain a decimal digit (char.isdigit())
DigitTokens == {"B1", "2015", "60", "30", "100"}

\* any(prefix in regulation for prefix in ["Part ", "BS ", "Eurocode"])
WellDefinedPrefixes == {<<"Part", " ">>, <<"BS", " ">>, <<"Eurocode">>}

calculate_evidence_quality(finding) ==
    LET evidence == Get(finding, "evidence", <<>>)
    IN  IF evidence = <<>> THEN R(3, 10)
        ELSE LET quantity_score == RMin(R(1, 1), R(Len(evidence), 5))
                 evidence_types ==
                     {Get(evidence[i], "type", "unknown") : i \in DOMAIN evidence}
                 diversity_score == RMin(R(1, 1), R(Cardinality(evidence_types), 3))
                 evidence_confidences ==
                     [i \in DOMAIN evidence |-> Get(evidence[i], "confidence", R(1, 2))]
                 avg_evidence_confidence ==
                     RDivInt(SumSeq(evidence_confidences), Len(evidence_confidences))
             IN  RAdd(RMul(R(4, 10), quantity_score),
                      RAdd(RMul(R(3, 10), diversity_score),
                           RMul(R(3, 10), avg_evidence_confidence)))

calculate_regulation_clarity(finding) ==
    LET regulation == Get(finding, "regulation", <<>>)
        requirement == Get(finding, "requirement", <<>>)
        regulation_mentioned == Get(finding, "regulation_mentioned", FALSE)
        mentioned_part == IF regulation_mentioned THEN R(4, 10) ELSE R(0, 1)
        defined_part ==
            IF \E prefix \in WellDefinedPrefixes : Contains(regulation, prefix)
            THEN R(3, 10) ELSE R(0, 1)
        measurable_part ==
            IF requirement # <<>>
               /\ \E i \in DOMAIN requirement : requirement[i] \in DigitTokens
            THEN R(3, 10) ELSE R(0, 1)
    IN  RMin(R(1, 1), RAdd(mentioned_part, RAdd(defined_part, measurable_part)))

\* the weighted sum of _calibrate_confidence
calibration_multiplier(evidence_quality, regulation_clarity, document_factor, agent_match) ==
    RAdd(RMul(R(3, 10), evidence_quality),
    RAdd(RMul(R(2, 10), regulation_clarity),
    RAdd(RMul(R(2, 10), document_factor),
    RAdd(RMul(R(1, 10), agent_match), R(2, 10)))))

\* _calibrate_confidence with the ceiling left out: max(0.1, calibrated)
calibrate_confidence_no_ceiling(base_confidence, evidence_quality, regulation_clarity, document_factor, agent_match) ==
    RMax(R(1, 10),
         RMul(base_confidence,
              calibration_multiplier(evidence_quality, regulation_clarity,
                                     document_factor, agent_match)))

calibrate_confidence(base_confidence, evidence_quality, regulation_clarity, document_factor, agent_match) ==
    LET multiplier ==
            calibration_multiplier(evidence_quality, regulation_clarity,
                                   document_factor, agent_match)
        calibrated == RMul(base_confidence, multiplier)
    IN  RMax(R(1, 10), RMin(R(99, 100), calibrated))

get_confidence_level(confidence) ==
    IF RGe(confidence, R(85, 100)) THEN "high"
    ELSE IF RGe(confidence, R(70, 100)) THEN "medium"
    ELSE IF RGe(confidence, R(50, 100)) THEN "low"
    ELSE "very_low"

\* the calibrated finding, without its confidence_explanation text
calculate_finding_confidence(finding, document_completeness, agent_match) ==
    LET base_confidence == Get(finding, "confidence", R(1, 2))
        evidence_quality == calculate_evidence_quality(finding)
        regulation_clarity == calculate_regulation_clarity(finding)
        document_factor == R(document_completeness, 100)
        calibrated_confidence ==
            calibrate_confidence(base_confidence, evidence_quality,
                                 regulation_clarity, document_factor, agent_match)
    IN  Merge(finding,
              [base_confidence |-> round(base_confidence, 4),
               calibrated_confidence |-> round(calibrated_confidence, 4),
               confidence_level |-> get_confidence_level(calibrated_confidence),
               confidence_factors |->
                   [evidence_quality |-> round(evidence_quality, 4),
                    regulation_clarity |-> round(regulation_clarity, 4),
                    document_completeness |-> round(document_factor, 4),
                    agent_specialization |-> round(agent_match, 4)]])

---------------------------------------------------------------------------
(* TrafficLightScorer (langflow/components/traffic_light_scorer.py)        *)

assign_priority(status, confidence, is_compliant) ==
    IF status = "red"
    THEN IF RGe(confidence, R(85, 1)) THEN "critical" ELSE "high"
    ELSE IF status = "amber"
         THEN IF ~is_compliant THEN "high" ELSE "medium"
         ELSE "low"

\* _score_finding's status with low-confidence non-compliance scored amber
finding_status_low_amber(confidence, is_compliant, green_threshold, amber_threshold, strict_mode) ==
    IF strict_mode /\ ~is_compliant THEN "red"
    ELSE IF ~is_compliant
         THEN IF RGe(confidence, R(amber_threshold, 1)) THEN "red" ELSE "amber"
         ELSE IF RGe(confidence, R(green_threshold, 1)) THEN "green" ELSE "amber"

\* the if/elif chain of _score_finding that decides the status
finding_status(confidence, is_compliant, green_threshold, amber_threshold, strict_mode) ==
    IF strict_mode /\ ~is_compliant THEN "red"
    ELSE IF ~is_compliant
         THEN IF RGe(confidence, R(green_threshold, 1)) THEN "red"
              ELSE IF RGe(confidence, R(amber_threshold, 1)) THEN "red"
              ELSE "red"
         ELSE IF RGe(confidence, R(green_threshold, 1)) THEN "green"
              ELSE IF RGe(confidence, R(amber_threshold, 1)) THEN "amber"
              ELSE "amber"

\* the scored finding, without its status_emoji and status_description texts
score_finding(finding, green_threshold, amber_threshold, strict_mode) ==
    LET confidence == RMul(Get(finding, "confidence", R(0, 1)), R(100, 1))
        is_compliant == Get(finding, "is_compliant", TRUE)
        status == finding_status(confidence, is_compliant, green_threshold,
                                 amber_threshold, strict_mode)
        requires_review ==
            \/ status = "amber"
            \/ status = "red"
            \/ RLt(confidence, R(amber_threshold, 1))
    IN  Merge(finding,
              [traffic_light_status |-> status,
               confidence_percentage |-> round(confidence, 2),
               requires_professional_review |-> requires_review,
               priority |-> assign_priority(status, confidence, is_compliant)])

\* _calculate_overall_status with the empty finding set reported green
calculate_overall_status_empty_green(scored) ==
    IF \E i \in DOMAIN scored : scored[i].traffic_light_status = "red" THEN "red"
    ELSE IF \E i \in DOMAIN scored : scored[i].traffic_light_status = "amber"
         THEN "amber"
         ELSE "green"

calculate_overall_status(scored) ==
    IF scored = <<>> THEN "amber"
    ELSE LET statuses == [i \in DOMAIN scored |-> scored[i].traffic_light_status]
         IN  IF \E i \in DOMAIN statuses : statuses[i] = "red" THEN "red"
             ELSE IF \E i \in DOMAIN statuses : statuses[i] = "amber" THEN "amber"
             ELSE "green"

\* findings handed to the calculator and the scorer
MaxFindings == 3

ConfidenceGrid == {R(0, 1), R(3, 4), R(99, 100)}

StrongEvidence ==
    <<[type |-> "regulation_reference", confidence |-> R(95, 100)],
      [type |-> "technical_specification", confidence |-> R(90, 100)],
      [type |-> "keyword_match", confidence |-> R(75, 100)]>>

FindingInputs ==
    {[regulation |-> <<"Part", " ", "B1">>,
      requirement |-> <<"minimum", " ", "60", " ", "minutes">>,
      is_compliant |-> ic, confidence |-> c,
      regulation_mentioned |-> TRUE, evidence |-> StrongEvidence]
        : ic \in BOOLEAN, c \in ConfidenceGrid}
    \cup
    {[regulation |-> <<"CDM", " ", "2015">>,
      requirement |-> <<"risk", " ", "assessment">>,
      is_compliant |-> ic, confidence |-> c,
      regulation_mentioned |-> FALSE, evidence |-> <<>>]
        : ic \in BOOLEAN, c \in {R(99, 100)}}
    \cup
    {[is_compliant |-> FALSE], [confidence |-> R(9, 10)]}

\* (green_threshold, amber_threshold) settings of TrafficLightScorer.build
ThresholdSettings == {<<85, 70>>, <<50, 90>>}

\* (document_completeness, agent_specialization_match) of ConfidenceCalculator.build
CalculatorSettings == {<<100, R(1, 1)>>, <<50, R(1, 2)>>}

\* the values k/GridSteps of [0,1] tried as factors of _calibrate_confidence
GridSteps == 2

UnitGrid == {R(k, GridSteps) : k \in 0..GridSteps}

NoCalibration ==
    [base_confidence |-> R(0, 1), evidence_quality |-> R(0, 1),
     regulation_clarity |-> R(0, 1), document_factor |-> R(0, 1),
     agent_match |-> R(0, 1)]

DefaultCalcArgs ==
    [document_completeness |-> 100, agent_specialization_match |-> R(1, 1)]

DefaultScoreArgs ==
    [green_threshold |-> 85, amber_threshold |-> 70, strict_mode |-> FALSE]

ScoreOff ==
    /\ findings = <<>>
    /\ calibrated_findings = <<>>
    /\ calc_args = DefaultCalcArgs
    /\ scored_findings = <<>>
    /\ overall_status = "none"
    /\ score_args = DefaultScoreArgs
    /\ calib_in = NoCalibration
    /\ calib_out = R(0, 1)
    /\ score_pc = "off"

\* an upstream agent or checker hands over one more finding
AddFinding(f) ==
    /\ score_pc = "input"
    /\ Len(findings) < MaxFindings
    /\ findings' = Append(findings, f)
    /\ UNCHANGED <<calibrated_findings, calc_args, scored_findings,
                   overall_status, score_args, calib_in, calib_out, score_pc,
                   other_than_score>>

\* ConfidenceCalculator.build(findings, document_completeness, agent_match)
CalculatorBuild(document_completeness, agent_match) ==
    /\ score_pc = "input"
    /\ calibrated_findings' =
           [i \in DOMAIN findings |->
               calculate_finding_confidence(findings[i], document_completeness,
                                            agent_match)]
    /\ calc_args' = [document_completeness |-> document_completeness,
                     agent_specialization_match |-> agent_match]
    /\ score_pc' = "calibrated"
    /\ UNCHANGED <<findings, scored_findings, overall_status, score_args,
                   calib_in, calib_out, other_than_score>>

\* TrafficLightScorer.build(findings, green_threshold, amber_threshold,
\* strict_mode) on the given list of findings
ScorerBuildOn(input, green_threshold, amber_threshold, strict_mode) ==
    LET scored == [i \in DOMAIN input |->
                      score_finding(input[i], green_threshold, amber_threshold,
                                    strict_mode)]
    IN  /\ scored_findings' = scored
        /\ overall_status' = calculate_overall_status(scored)
        /\ score_args' = [green_threshold |-> green_threshold,
                          amber_threshold |-> amber_threshold,
                          strict_mode |-> strict_mode]
        /\ score_pc' = "scored"
        /\ UNCHANGED <<findings, calibrated_findings, calc_args, calib_in,
                       calib_out, other_than_score>>

\* the scorer wired directly to the findings
ScoreRawFindings(green_threshold, amber_threshold, strict_mode) ==
    /\ score_pc = "input"
    /\ ScorerBuildOn(findings, green_threshold, amber_threshold, strict_mode)

\* the scorer wired to the calculator's calibrated_findings
ScoreCalibratedFindings(green_threshold, amber_threshold, strict_mode) ==
    /\ score_pc = "calibrated"
    /\ ScorerBuildOn(calibrated_findings, green_threshold, amber_threshold,
                     strict_mode)

\* _calibrate_confidence called on its own, before any finding is handed over
CalibrateConfidence(args) ==
    /\ score_pc = "input"
    /\ findings = <<>>
    /\ calib_in' = args
    /\ calib_out' = calibrate_confidence(args.base_confidence, args.evidence_quality,
                                         args.regulation_clarity,
                                         args.document_factor, args.agent_match)
    /\ score_pc' = "unit"
    /\ UNCHANGED <<findings, calibrated_findings, calc_args, scored_findings,
                   overall_status, score_args, other_than_score>>

---------------------------------------------------------------------------
(* RegulationChecker (src/langflow/components/regulation_checker.py)       *)

UpperCase == <<"A", "B", "C", "D", "E", "F", "G", "H", "I", "J", "K", "L", "M", "N", "O", "P", "Q", "R", "S", "T", "U", "V", "W", "X", "Y", "Z">>

LowerCase == <<"a", "b", "c", "d", "e", "f", "g", "h", "i", "j", "k", "l", "m", "n", "o", "p", "q", "r", "s", "t", "u", "v", "w", "x", "y", "z">>

\* one character of str.lower(), which is also how re.IGNORECASE compares
lower_char(c) ==
    IF \E i \in DOMAIN UpperCase : UpperCase[i] = c
    THEN LowerCase[CHOOSE i \in DOMAIN UpperCase : UpperCase[i] = c]
    ELSE c

lower(s) == [i \in 1..Len(s) |-> lower_char(s[i])]

DigitChars == <<"0", "1", "2", "3", "4", "5", "6", "7", "8", "9">>

\* the classes \d and \s on the characters the texts are written with
Digit == {DigitChars[i] : i \in DOMAIN DigitChars}

Whitespace == {" ", "\n"}

\* a regular expression is a sequence of items: a character class repeated
\* lo..hi times, greedily (hi = -1: no upper limit), or an alternation of
\* literal words tried in the order written; literals are in lower case
Cls(s, lo, hi) == [k |-> "cls", s |-> s, lo |-> lo, hi |-> hi]

Alt(words) == [k |-> "alt", a |-> words]

Lit(word) == Alt(<<word>>)

\* (\d+\.?\d*)
NumberItems == <<Cls(Digit, 1, -1), Cls({"."}, 0, 1), Cls(Digit, 0, -1)>>

\* \s*
Spaces == Cls(Whitespace, 0, -1)

\* the number of characters of class s at the head of text[pos..]
RECURSIVE RunLength(_, _, _)
RunLength(t, pos, s) ==
    IF pos <= Len(t) /\ lower_char(t[pos]) \in s
    THEN 1 + RunLength(t, pos + 1, s)
    ELSE 0

\* the backtracking match of items[i..] at position pos: the positions at
\* which each item starts, then the position after the match; <<>> if none
RECURSIVE MatchItems(_, _, _, _)
RECURSIVE TryCounts(_, _, _, _, _)
RECURSIVE TryAlts(_, _, _, _, _)
MatchItems(items, i, pos, t) ==
    IF i > Len(items) THEN <<pos>>
    ELSE IF items[i].k = "cls"
         THEN LET run == RunLength(t, pos, items[i].s)
              IN  TryCounts(items, i, pos, t,
                            IF items[i].hi < 0 THEN run ELSE Min(run, items[i].hi))
         ELSE TryAlts(items, i, pos, t, 1)

TryCounts(items, i, pos, t, n) ==
    IF n < items[i].lo THEN <<>>
    ELSE LET rest == MatchItems(items, i + 1, pos + n, t)
         IN  IF rest # <<>> THEN <<pos>> \o rest
             ELSE TryCounts(items, i, pos, t, n - 1)

TryAlts(items, i, pos, t, j) ==
    IF j > Len(items[i].a) THEN <<>>
    ELSE LET word == items[i].a[j]
             here == /\ pos + Len(word) - 1 <= Len(t)
                     /\ \A m \in 1..Len(word) : lower_char(t[pos + m - 1]) = word[m]
             rest == IF here THEN MatchItems(items, i + 1, pos + Len(word), t)
                     ELSE <<>>
         IN  IF rest # <<>> THEN <<pos>> \o rest
             ELSE TryAlts(items, i, pos, t, j + 1)

\* re.finditer(pattern, text, re.IGNORECASE): group 1 of the successive
\* non-overlapping matches, leftmost first
RECURSIVE finditer(_, _, _)
finditer(pattern, t, pos) ==
    IF pos > Len(t) THEN <<>>
    ELSE LET m == MatchItems(pattern.items, 1, pos, t)
         IN  IF m = <<>> THEN finditer(pattern, t, pos + 1)
             ELSE <<SubSeq(t, m[pattern.group_from], m[pattern.group_to + 1] - 1)>>
                      \o finditer(pattern, t, m[Len(m)])

\* the patterns table of _build_value_pattern
ValuePatterns ==
    [fire_rating_minutes |->
        [items |-> <<Cls(Digit, 1, -1), Spaces,
                     Alt(<<<<"m", "i", "n", "u", "t", "e">>, <<"m", "i", "n">>>>), Spaces,
                     Lit(<<"f", "i", "r", "e">>), Spaces,
                     Alt(<<<<"r", "a", "t", "i", "n", "g">>, <<"r", "e", "s", "i", "s", "t", "a", "n", "c", "e">>>>)>>,
         group_from |-> 1, group_to |-> 1],
     u_value |->
        [items |-> <<Lit(<<"u">>), Cls({"-"} \cup Whitespace, 0, 1),
                     Lit(<<"v", "a", "l", "u", "e">>), Cls({"s"}, 0, 1),
                     Cls(Whitespace \cup {":", "="}, 1, -1)>> \o NumberItems,
         group_from |-> 6, group_to |-> 8],
     thickness_mm |->
        [items |-> <<Cls(Digit, 1, -1), Spaces, Lit(<<"m", "m">>), Spaces,
                     Lit(<<"t", "h", "i", "c", "k">>)>>,
         group_from |-> 1, group_to |-> 1],
     load_capacity_kn |->
        [items |-> NumberItems \o <<Spaces, Lit(<<"k", "n">>)>>,
         group_from |-> 1, group_to |-> 3],
     height_m |->
        [items |-> NumberItems \o
                   <<Spaces, Alt(<<<<"m">>, <<"m", "e", "t", "r", "e">>, <<"m", "e", "t", "e", "r">>>>)>>,
         group_from |-> 1, group_to |-> 3]]

build_value_pattern(value_name) ==
    IF value_name \in DOMAIN ValuePatterns
    THEN ValuePatterns[value_name]
    ELSE [items |-> NumberItems, group_from |-> 1, group_to |-> 3]

RECURSIVE ParseDigits(_)
ParseDigits(s) ==
    IF s = <<>> THEN 0
    ELSE 10 * ParseDigits(SubSeq(s, 1, Len(s) - 1))
         + (CHOOSE v \in 0..9 : DigitChars[v + 1] = s[Len(s)])

\* float() of a string \d+\.?\d*
float(s) ==
    LET dots == {i \in 1..Len(s) : s[i] = "."}
    IN  IF dots = {} THEN R(ParseDigits(s), 1)
        ELSE LET p == CHOOSE i \in dots : TRUE
                 frac == Drop(s, p + 1)
             IN  RAdd(R(ParseDigits(SubSeq(s, 1, p - 1)), 1),
                      R(ParseDigits(frac), Pow10(Len(frac))))

\* _check_regulation_mentioned with a case-sensitive search
check_regulation_mentioned_case_sensitive(t, regulation) ==
    IF regulation = <<>> THEN FALSE ELSE Contains(t, regulation)

\* re.search(re.escape(regulation), text, re.IGNORECASE) is not None
check_regulation_mentioned(t, regulation) ==
    IF regulation = <<>> THEN FALSE
    ELSE Contains(lower(t), lower(regulation))

check_keywords(t, keywords) ==
    LET text_lower == lower(t)
    IN  SelectSeq(keywords, LAMBDA keyword : Contains(text_lower, lower(keyword)))

\* the loop over the matches of one value pattern
RECURSIVE FoundCompliantValue(_, _, _)
FoundCompliantValue(matches, i, constraints) ==
    IF i > Len(matches) THEN FALSE
    ELSE LET value == float(matches[i])
         IN  IF "min" \in DOMAIN constraints /\ RLt(value, constraints["min"])
             THEN FoundCompliantValue(matches, i + 1, constraints)
             ELSE IF "max" \in DOMAIN constraints /\ RLt(constraints["max"], value)
             THEN FoundCompliantValue(matches, i + 1, constraints)
             ELSE IF "exact" \in DOMAIN constraints /\ value # constraints["exact"]
             THEN FoundCompliantValue(matches, i + 1, constraints)
             ELSE TRUE

\* the loop over required_values.items(), a sequence of <<name, constraints>>
RECURSIVE CheckValuesFrom(_, _, _)
CheckValuesFrom(t, required_values, i) ==
    IF i > Len(required_values) THEN TRUE
    ELSE LET value_pattern == build_value_pattern(required_values[i][1])
             matches == finditer(value_pattern, t, 1)
         IN  IF ~FoundCompliantValue(matches, 1, required_values[i][2]) THEN FALSE
             ELSE CheckValuesFrom(t, required_values, i + 1)

check_required_values(t, required_values) == CheckValuesFrom(t, required_values, 1)

\* _calculate_requirement_confidence with the keyword rate taken by floor division
calculate_requirement_confidence_floor_rate(regulation_mentioned, keywords_found, total_keywords, values_compliant) ==
    LET c1 == IF regulation_mentioned THEN R(3, 10) ELSE R(0, 1)
        c2 == IF total_keywords # <<>>
              THEN RAdd(c1, RMul(R(1, 2),
                                 R(Len(keywords_found) \div Len(total_keywords), 1)))
              ELSE c1
        c3 == IF values_compliant THEN RAdd(c2, R(2, 10)) ELSE c2
    IN  RMin(R(1, 1), c3)

calculate_requirement_confidence(regulation_mentioned, keywords_found, total_keywords, values_compliant) ==
    LET c1 == IF regulation_mentioned THEN R(3, 10) ELSE R(0, 1)
        c2 == IF total_keywords # <<>>
              THEN RAdd(c1, RMul(R(1, 2), R(Len(keywords_found), Len(total_keywords))))
              ELSE c1
        c3 == IF values_compliant THEN RAdd(c2, R(2, 10)) ELSE c2
    IN  RMin(R(1, 1), c3)

\* _check_requirement; the id defaults to the regulation and the hash of the
\* requirement text, here the pair of the two; the description is display text
\* built from the other fields and is left out
check_requirement(requirement, t, agent_type) ==
    LET regulation == Get(requirement, "regulation", <<>>)
        requirement_text == Get(requirement, "requirement", <<>>)
        keywords == Get(requirement, "keywords", <<>>)
        required_values == Get(requirement, "required_values", <<>>)
        regulation_mentioned == check_regulation_mentioned(t, regulation)
        keywords_found == check_keywords(t, keywords)
        values_compliant ==
            IF required_values # <<>> THEN check_required_values(t, required_values)
            ELSE TRUE
        is_compliant ==
            /\ regulation_mentioned
            /\ 2 * Len(keywords_found) >= Len(keywords)
            /\ values_compliant
        confidence ==
            calculate_requirement_confidence(regulation_mentioned, keywords_found,
                                             keywords, values_compliant)
    IN  [id |-> Get(requirement, "id", <<regulation, requirement_text>>),
         regulation |-> regulation,
         requirement |-> requirement_text,
         is_compliant |-> is_compliant,
         confidence |-> confidence,
         regulation_mentioned |-> regulation_mentioned,
         keywords_found |-> keywords_found,
         total_keywords |-> Len(keywords),
         values_compliant |-> values_compliant,
         agent_type |-> agent_type]

\* the requirements build keeps for agent_type
relevant_requirements(requirements, agent_type) ==
    SelectSeq(requirements, LAMBDA req : Get(req, "agent_type", agent_type) = agent_type)

\* RegulationChecker.build on a parsed list of requirements; the summary is
\* derived from the findings and is left out
regulation_checker_build(t, requirements, agent_type) ==
    LET relevant == relevant_requirements(requirements, agent_type)
        compliance_findings ==
            [i \in 1..Len(relevant) |-> check_requirement(relevant[i], t, agent_type)]
    IN  [compliance_findings |-> compliance_findings,
         agent_type |-> agent_type,
         total_requirements_checked |-> Len(compliance_findings),
         requirements_met |->
            Cardinality({i \in DOMAIN compliance_findings :
                            compliance_findings[i].is_compliant}),
         requirements_not_met |->
            Cardinality({i \in DOMAIN compliance_findings :
                            ~compliance_findings[i].is_compliant})]

\* the pieces the document texts are put together from
MaxFragments == 2

Fragments ==
    {<<"P", "a", "r", "t", " ", "B", "1", " ", "f", "i", "r", "e", " ", "a", "l", "a", "r", "m", ".", " ">>,
     <<"P", "A", "R", "T", " ", "b", "1", " ", "6", "0", " ", "k", "N", " ">>,
     <<"F", "i", "r", "e", " ", "A", "l", "a", "r", "m", " ", "d", "e", "t", "e", "c", "t", "i", "o", "n", " ">>,
     <<"7", ".", "5", "k", "N", " ", "3", "0", " ">>,
     <<"B", "S", " ", "4", "7", "6", " ", "6", "0", " ", "m", "i", "n", " ", "f", "i", "r", "e", " ", "r", "a", "t", "i", "n", "g", " ">>}

RECURSIVE Flatten(_)
Flatten(parts) == IF parts = <<>> THEN <<>> ELSE Head(parts) \o Flatten(Tail(parts))

DocumentTexts == {Flatten(parts) : parts \in AllSeqs(Fragments, MaxFragments)}

\* the longest requirements list handed to build
MaxRequirements == 1

AgentTypes == {"fire_safety", "structural"}

RequirementTemplates ==
    {[id |-> "FS-1", regulation |-> <<"P", "a", "r", "t", " ", "B", "1">>,
      requirement |-> <<"a", "l", "a", "r", "m">>,
      keywords |-> <<<<"f", "i", "r", "e", " ", "a", "l", "a", "r", "m">>, <<"d", "e", "t", "e", "c", "t", "i", "o", "n">>>>,
      agent_type |-> "fire_safety"],
     [id |-> "ST-1", regulation |-> <<"p", "a", "r", "t", " ", "b", "1">>,
      keywords |-> <<<<"f", "i", "r", "e", " ", "a", "l", "a", "r", "m">>, <<"s", "p", "r", "i", "n", "k", "l", "e", "r">>>>,
      required_values |-> <<<<"load_capacity_kn", [min |-> R(50, 1)]>>>>,
      agent_type |-> "structural"],
     [regulation |-> <<"P", "a", "r", "t", " ", "B", "1">>,
      keywords |-> <<>>,
      required_values |-> <<<<"clearance", [max |-> R(30, 1)]>>,
                            <<"load_capacity_kn", [min |-> R(5, 1), max |-> R(10, 1)]>>>>],
     [id |-> "FS-2", keywords |-> <<<<"d", "e", "t", "e", "c", "t", "i", "o", "n">>>>, agent_type |-> "fire_safety"],
     [id |-> "ST-2", regulation |-> <<"B", "S", " ", "4", "7", "6">>,
      keywords |-> <<<<"f", "i", "r", "e", " ", "a", "l", "a", "r", "m">>, <<"d", "e", "t", "e", "c", "t", "i", "o", "n">>, <<"s", "p", "r", "i", "n", "k", "l", "e", "r">>>>,
      required_values |-> <<<<"fire_rating_minutes", [exact |-> R(60, 1)]>>>>,
      agent_type |-> "structural"]}

NoRequirement == [id |-> "none"]

NoFinding == [id |-> "none"]

NoBuildResult == [agent_type |-> "none"]

RegOff ==
    /\ document_text = <<>>
    /\ requirements_list = <<>>
    /\ build_result = NoBuildResult
    /\ checked_requirement = NoRequirement
    /\ checked_finding = NoFinding
    /\ reg_pc = "off"

\* the caller puts one more requirement on the list it will hand to build
AddRequirement(req) ==
    /\ reg_pc = "input"
    /\ Len(requirements_list) < MaxRequirements
    /\ requirements_list' = Append(requirements_list, req)
    /\ UNCHANGED <<document_text, build_result, checked_requirement,
                   checked_finding, reg_pc, other_than_reg>>

RegulationCheckerBuild(agent_type) ==
    /\ reg_pc = "input"
    /\ build_result' = regulation_checker_build(document_text, requirements_list,
                                                 agent_type)
    /\ reg_pc' = "built"
    /\ UNCHANGED <<document_text, requirements_list, checked_requirement,
                   checked_finding, other_than_reg>>

\* _check_requirement called on one requirement
CheckRequirement(req, agent_type) ==
    /\ reg_pc = "input"
    /\ requirements_list = <<>>
    /\ checked_requirement' = req
    /\ checked_finding' = check_requirement(req, document_text, agent_type)
    /\ reg_pc' = "checked"
    /\ UNCHANGED <<document_text, requirements_list, build_result, other_than_reg>>

---------------------------------------------------------------------------
(* DocumentClassifier (src/langflow/components/document_classifier.py)     *)

\* any(word in text for word in words)
AnyIn(words, t) == \E k \in DOMAIN words : Contains(t, words[k])

DrawingWords ==
    <<<<"s", "c", "a", "l", "e", " ", "1", ":">>, <<"d", "r", "a", "w", "i", "n", "g", " ", "n", "o">>, <<"r", "e", "v", ".">>, <<"n", "o", "r", "t", "h", " ", "p", "o", "i", "n", "t">>>>

DrawingExtensions == <<<<".", "d", "w", "g">>, <<".", "d", "x", "f">>, <<".", "p", "d", "f">>>>

CalculationWords ==
    <<<<"c", "a", "l", "c", "u", "l", "a", "t", "i", "o", "n">>, <<"l", "o", "a", "d", " ", "c", "a", "s", "e">>, <<"u", "l", "t", "i", "m", "a", "t", "e", " ", "l", "i", "m", "i", "t", " ", "s", "t", "a", "t", "e">>>>

ScheduleWords == <<<<"d", "o", "o", "r">>, <<"w", "i", "n", "d", "o", "w">>, <<"f", "i", "n", "i", "s", "h">>>>

\* Python's `a and b` for a list a: a itself when a is empty, else b
list_and(a, b) ==
    IF a = <<>> THEN [is_list |-> TRUE, items |-> a]
    ELSE [is_list |-> FALSE, value |-> b]

\* what a call of _classify_document_type may raise
TypeError == "TypeError: 'bool' object is not iterable"

\* the checks of _classify_document_type that follow the drawing checks
classify_by_content(text_lower) ==
    IF \/ Contains(text_lower, <<"f", "i", "r", "e", " ", "s", "a", "f", "e", "t", "y", " ", "s", "t", "r", "a", "t", "e", "g", "y">>)
       \/ Contains(text_lower, <<"f", "i", "r", "e", " ", "e", "n", "g", "i", "n", "e", "e", "r", "i", "n", "g">>)
    THEN "fire_strategy"
    ELSE IF AnyIn(CalculationWords, text_lower) THEN "calculation"
    ELSE IF \/ Contains(text_lower, <<"s", "p", "e", "c", "i", "f", "i", "c", "a", "t", "i", "o", "n">>)
            \/ Contains(text_lower, <<"c", "l", "a", "u", "s", "e">>)
    THEN "specification"
    ELSE IF \/ Contains(text_lower, <<"c", "e", "r", "t", "i", "f", "i", "c", "a", "t", "e">>)
            \/ Contains(text_lower, <<"c", "e", "r", "t", "i", "f", "i", "e", "d", " ", "t", "h", "a", "t">>)
    THEN "certificate"
    ELSE IF /\ Contains(text_lower, <<"s", "c", "h", "e", "d", "u", "l", "e">>)
            /\ AnyIn(ScheduleWords, text_lower)
    THEN "schedule"
    ELSE "report"

\* _classify_document_type.  The second drawing check iterates over
\* `[".dwg", ".dxf", ".pdf"] and "drg" in filename_lower`, which is the bool
\* of the membership test since the list is not empty: the iteration raises
classify_document_type(t, filename) ==
    LET text_lower == lower(t)
        filename_lower == lower(filename)
    IN  IF AnyIn(DrawingWords, text_lower) THEN "drawing"
        ELSE LET exts == list_and(DrawingExtensions,
                                  Contains(filename_lower, <<"d", "r", "g">>))
             IN  IF ~exts.is_list THEN TypeError
                 ELSE IF AnyIn(exts.items, filename_lower) THEN "drawing"
                 ELSE classify_by_content(text_lower)

\* the most fragments a classified text is made of
MaxClassifyFragments == 2

ClassifyFragments ==
    {<<"S", "c", "a", "l", "e", " ", "1", ":", "5", "0", " ">>,
     <<"F", "i", "r", "e", " ", "S", "a", "f", "e", "t", "y", " ", "S", "t", "r", "a", "t", "e", "g", "y", " ">>,
     <<"L", "o", "a", "d", " ", "c", "a", "s", "e", " ", "2", " ">>,
     <<"c", "l", "a", "u", "s", "e", " ", "4", " ">>,
     <<"C", "e", "r", "t", "i", "f", "i", "e", "d", " ", "t", "h", "a", "t", " ">>,
     <<"D", "o", "o", "r", " ", "S", "c", "h", "e", "d", "u", "l", "e", " ">>,
     <<"n", "o", "t", "e", "s", " ">>}

ClassifyTexts ==
    {Flatten(parts) : parts \in AllSeqs(ClassifyFragments, MaxClassifyFragments)}

ClassifyFilenames == {<<>>, <<"p", "l", "a", "n", ".", "p", "d", "f">>, <<"D", "R", "G", "-", "0", "1", ".", "d", "w", "g">>}

ClassifyOff ==
    /\ classified_text = <<>>
    /\ classified_filename = <<>>
    /\ document_type = "none"
    /\ classify_pc = "off"

\* _classify_document_type called on the text and filename
ClassifyDocumentType ==
    /\ classify_pc = "input"
    /\ document_type' = classify_document_type(classified_text, classified_filename)
    /\ classify_pc' = "done"
    /\ UNCHANGED <<classified_text, classified_filename, other_than_classify>>

---------------------------------------------------------------------------
(* ChromaDBService and RAGService (src/backend/app/services)               *)

SPECIALIST_AGENTS ==
    <<"structural_engineering", "building_envelope", "mechanical_services",
      "electrical_services", "fire_safety", "accessibility",
      "environmental_sustainability", "health_safety", "quality_assurance",
      "legal_contracts", "specialist_systems", "external_works",
      "finishes_interiors">>

\* ChromaDBService.SPECIALIST_AGENTS + ["general"]
valid_agents == SPECIALIST_AGENTS \o <<"general">>

CollectionNames == {valid_agents[i] : i \in DOMAIN valid_agents}

\* an Optional argument left at None
None == "None"

\* agent_names left at None
NoAgentNames == <<None>>

\* the composite id f"{tenant_id}_{document_id}_{chunk_id}"
chunk_key(tenant_id, document_id, chunk_id) == <<tenant_id, document_id, chunk_id>>

\* the id, document and metadata add_document_chunks prepares for one chunk
prepared_unit(chunk, tenant_id, document_id, project_id) ==
    [id |-> chunk_key(tenant_id, document_id, chunk.chunk_id),
     text |-> chunk.text,
     metadata |-> Merge([tenant_id |-> tenant_id,
                         document_id |-> document_id,
                         project_id |-> project_id,
                         chunk_index |-> chunk.chunk_id],
                        Get(chunk, "metadata", <<>>))]

\* add_document_chunks on the units held by one collection.  collection.add
\* raises when the embedding provider fails; given ids that are already
\* stored it raises or leaves the stored units as they are, by the library
IdsOf(units) == {u.id : u \in units}

add_document_chunks(agent_name, chunk_list, call, st, colls, policy) ==
    IF agent_name \notin colls
    THEN [raised |-> TRUE, error |-> "Unknown agent", units |-> st[agent_name]]
    ELSE LET prepared == {prepared_unit(chunk_list[i], call.tenant_id, call.document_id,
                                        call.project_id) : i \in DOMAIN chunk_list}
             held == st[agent_name]
         IN  IF agent_name \in call.provider_errors
             THEN [raised |-> TRUE, error |-> "embedding provider error",
                   units |-> held]
             ELSE IF policy = "raise" /\ IdsOf(prepared) \cap IdsOf(held) # {}
             THEN [raised |-> TRUE, error |-> "duplicate ids", units |-> held]
             ELSE [raised |-> FALSE, chunks_added |-> Len(chunk_list),
                   units |-> held \cup {u \in prepared : u.id \notin IdsOf(held)}]

\* the fan-out loop of index_document leaving the loop at the first failure
RECURSIVE IndexLoopStopAtFailure(_, _, _, _, _, _, _, _)
IndexLoopStopAtFailure(call, chunk_list, agent_names, i, st, colls, policy, results) ==
    IF i > Len(agent_names)
    THEN [store |-> st, results |-> results, cancelled |-> FALSE]
    ELSE IF agent_names[i] = call.cancelled
    THEN [store |-> st, results |-> results, cancelled |-> TRUE]
    ELSE LET agent_name == agent_names[i]
             out == add_document_chunks(agent_name, chunk_list, call, st, colls, policy)
         IN  IF out.raised
             THEN [store |-> st,
                   results |-> Merge(results,
                       agent_name :> [status |-> "failed", error |-> out.error]),
                   cancelled |-> FALSE]
             ELSE IndexLoopStopAtFailure(call, chunk_list, agent_names, i + 1,
                      [st EXCEPT ![agent_name] = out.units], colls, policy,
                      Merge(results,
                            agent_name :> [status |-> "success",
                                           chunks_added |-> out.chunks_added]))

\* the fan-out loop of index_document: one write per agent name, each in its
\* own try/except Exception.  The write to call.cancelled is abandoned while
\* it is awaited: asyncio.CancelledError is raised at the await, and as it is
\* not an Exception the except clause lets it through and the loop ends
RECURSIVE IndexLoop(_, _, _, _, _, _, _, _)
IndexLoop(call, chunk_list, agent_names, i, st, colls, policy, results) ==
    IF i > Len(agent_names)
    THEN [store |-> st, results |-> results, cancelled |-> FALSE]
    ELSE IF agent_names[i] = call.cancelled
    THEN [store |-> st, results |-> results, cancelled |-> TRUE]
    ELSE LET agent_name == agent_names[i]
             out == add_document_chunks(agent_name, chunk_list, call, st, colls, policy)
         IN  IF out.raised
             THEN IndexLoop(call, chunk_list, agent_names, i + 1, st, colls, policy,
                      Merge(results,
                            agent_name :> [status |-> "failed", error |-> out.error]))
             ELSE IndexLoop(call, chunk_list, agent_names, i + 1,
                      [st EXCEPT ![agent_name] = out.units], colls, policy,
                      Merge(results,
                            agent_name :> [status |-> "success",
                                           chunks_added |-> out.chunks_added]))

\* the emptiness test of index_document without the strip
empty_text_unstripped(t) == t = <<>>

\* `not text or len(text.strip()) == 0`
empty_text(t) == t = <<>> \/ strip(t) = <<>>

\* index_document with page_count left at None
index_document(call, st, colls, policy) ==
    IF empty_text(call.text)
    THEN [store |-> st,
          result |-> [document_id |-> call.document_id, status |-> "skipped",
                      reason |-> "empty_text"]]
    ELSE LET metadata == Merge([document_id |-> call.document_id,
                                tenant_id |-> call.tenant_id,
                                project_id |-> call.project_id],
                               call.document_metadata)
             chunk_list == chunk_dicts(call.text, metadata)
         IN  IF chunk_list = <<>>
             THEN [store |-> st,
                   result |-> [document_id |-> call.document_id, status |-> "failed",
                               reason |-> "no_chunks_created"]]
             ELSE LET agent_names ==
                          IF call.agent_names = NoAgentNames THEN valid_agents
                          ELSE SelectSeq(call.agent_names,
                                         LAMBDA a : a \in CollectionNames)
                      out == IndexLoop(call, chunk_list, agent_names, 1, st, colls,
                                       policy, <<>>)
                  IN  IF out.cancelled
                      THEN [store |-> out.store,
                            result |-> [document_id |-> call.document_id,
                                        status |-> "raised",
                                        error |-> "CancelledError"]]
                      ELSE
                      [store |-> out.store,
                       result |->
                          [document_id |-> call.document_id,
                           status |-> "completed",
                           total_chunks |-> Len(chunk_list),
                           agents_indexed |->
                              Cardinality({a \in DOMAIN out.results :
                                              out.results[a].status = "success"}),
                           agent_results |-> out.results]]

\* the where clause of query_agent_collection
query_where(tenant_id, document_id, project_id) ==
    LET w1 == [tenant_id |-> tenant_id]
        w2 == IF document_id # None THEN Merge(w1, [document_id |-> document_id])
              ELSE w1
    IN  IF project_id # None THEN Merge(w2, [project_id |-> project_id]) ELSE w2

\* a stored unit satisfies a where clause: every key of it is in the unit's
\* metadata with the same value
MatchesWhere(unit, where) ==
    \A k \in DOMAIN where : k \in DOMAIN unit.metadata /\ unit.metadata[k] = where[k]

\* what collection.query may answer: n_results of the units that satisfy the
\* where clause, or all of them when there are fewer (the ranking is the
\* embedding's; the answer is kept as a set)
QueryAnswers(units, where, n_results) ==
    LET matching == {u \in units : MatchesWhere(u, where)}
    IN  {answer \in SUBSET matching :
            Cardinality(answer) = Min(n_results, Cardinality(matching))}

\* query_agent_collection: raises for an agent without a collection and when
\* collection.query raises, else formats what collection.query answered
query_agent_collection(call, st, colls) ==
    IF call.agent_name \notin colls
    THEN [raised |-> TRUE, error |-> "Unknown agent", answers |-> {}]
    ELSE IF call.agent_name \in call.provider_errors
    THEN [raised |-> TRUE, error |-> "embedding provider error", answers |-> {}]
    ELSE [raised |-> FALSE,
          answers |-> QueryAnswers(st[call.agent_name],
                                   query_where(call.tenant_id, call.document_id,
                                               call.project_id),
                                   call.n_results)]

\* query_for_context without its except clause: the exception reaches the caller
query_for_context_propagating(call, st, colls) ==
    LET out == query_agent_collection(call, st, colls)
    IN  IF out.raised THEN {{[raised |-> TRUE, error |-> out.error]}}
        ELSE out.answers

\* query_for_context: the lists it may return, the empty list when
\* query_agent_collection raises
query_for_context(call, st, colls) ==
    LET out == query_agent_collection(call, st, colls)
    IN  IF out.raised THEN {{}} ELSE out.answers

\* collection.delete of what collection.get(where) finds for a document
units_of_document(units, tenant_id, document_id) ==
    {u \in units : MatchesWhere(u, [tenant_id |-> tenant_id,
                                    document_id |-> document_id])}

\* delete_document_chunks: collections whose get or delete raises are passed over
delete_document_chunks(call, st, colls) ==
    LET reached == colls \ call.provider_errors
        found == [c \in reached |->
                     units_of_document(st[c], call.tenant_id, call.document_id)]
    IN  [store |-> [c \in DOMAIN st |->
                       IF c \in reached THEN st[c] \ found[c] ELSE st[c]],
         total_deleted |->
            Cardinality(UNION {{<<c, u>> : u \in found[c]} : c \in reached})]

\* delete_document_from_index: delete_document_chunks passes over what a
\* collection raises, so the call reports success with the count it returns
delete_document_from_index(call, st, colls) ==
    LET out == delete_document_chunks(call, st, colls)
    IN  [store |-> out.store,
         result |-> [document_id |-> call.document_id, status |-> "success",
                     chunks_deleted |-> out.total_deleted]]

\* reindex_document with its two awaited calls in the other order
reindex_step_index_first(pc, call, st, colls, policy) ==
    IF pc = "start" THEN index_document(call, st, colls, policy)
    ELSE delete_document_from_index(
             [call EXCEPT !.provider_errors = call.delete_errors], st, colls)

\* reindex_document up to its next await: delete_document_from_index from
\* the start, index_document once that has returned; delete_errors are the
\* collections that fail during the first
reindex_step(pc, call, st, colls, policy) ==
    IF pc = "start"
    THEN delete_document_from_index(
             [call EXCEPT !.provider_errors = call.delete_errors], st, colls)
    ELSE index_document(call, st, colls, policy)

\* the most index_document calls of one run
MaxIndexCalls == 1

\* the most collections the embedding provider fails for during one call
MaxFailures == 1

Tenants == {"tenant-a", "tenant-b"}

DocumentIds == {"doc-1"}

ProjectIds == {"proj-1"}

IndexTexts == {<<>>, <<" ">>, <<"a", "b", "\n", "\n", "b", "a">>}

DocumentMetadata == {<<>>, [filename |-> "plan.pdf", tenant_id |-> "tenant-a"]}

AgentNameLists ==
    {NoAgentNames, <<"fire_safety", "acoustics", "general">>, <<>>}

QueryAgents == {"fire_safety", "acoustics"}

ResultCounts == {1, 5}

\* the collection whose write the caller may abandon, None for no abandoning
Abandoned == {None, "fire_safety"}

\* the collections whose reads and writes the provider may fail
Unreliable == {"fire_safety", "general"}

FailureSets == {s \in SUBSET Unreliable : Cardinality(s) <= MaxFailures}

NoCall == [op |-> "none"]

IndexOff ==
    /\ chroma_collections = {}
    /\ store = [c \in CollectionNames |-> {}]
    /\ on_duplicate = "off"
    /\ index_calls = 0
    /\ last_call = NoCall
    /\ last_result = NoCall

\* A query changes no collection: every state of the index that can follow it
\* can be reached without it, so a run is followed up to its first query
Answered == last_call.op = "query_for_context"

\* reindex_document has been called, and has returned once its result has the
\* outcome of the index step; a run is followed up to its first reindex
Reindexing == last_call.op = "reindex_document"

ReindexReturned == Reindexing /\ "indexed" \in DOMAIN last_result

\* ChromaDBService.connect, all collections created
Connect ==
    /\ ~Answered
    /\ ~Reindexing
    /\ chroma_collections = {}
    /\ chroma_collections' = CollectionNames
    /\ last_call' = [op |-> "connect"]
    /\ last_result' = NoCall
    /\ UNCHANGED <<store, on_duplicate, index_calls, other_than_index>>

\* RAGService.index_document
IndexDocument(call) ==
    /\ ~Answered
    /\ ~Reindexing
    /\ index_calls < MaxIndexCalls
    /\ LET out == index_document(call, store, chroma_collections, on_duplicate)
       IN  /\ store' = out.store
           /\ last_result' = out.result
    /\ last_call' = call
    /\ index_calls' = index_calls + 1
    /\ UNCHANGED <<chroma_collections, on_duplicate, other_than_index>>

\* RAGService.query_for_context
QueryForContext(call) ==
    /\ ~Answered
    /\ last_call' = call
    /\ last_result' \in query_for_context(call, store, chroma_collections)
    /\ UNCHANGED <<chroma_collections, store, on_duplicate, index_calls,
                   other_than_index>>

\* RAGService.delete_document_from_index
DeleteDocumentFromIndex(call) ==
    /\ ~Answered
    /\ ~Reindexing
    /\ LET out == delete_document_from_index(call, store, chroma_collections)
       IN  /\ store' = out.store
           /\ last_result' = out.result
    /\ last_call' = call
    /\ UNCHANGED <<chroma_collections, on_duplicate, index_calls, other_than_index>>

\* RAGService.reindex_document from the call to the return of its first await
ReindexDelete(call) ==
    /\ ~Reindexing
    /\ \E out \in {reindex_step("start", call, store, chroma_collections,
                                 on_duplicate)} :
           /\ store' = out.store
           /\ last_result' = [document_id |-> call.document_id,
                              status |-> "running", first |-> out.result]
    /\ last_call' = call
    /\ UNCHANGED <<chroma_collections, on_duplicate, index_calls, other_than_index>>

\* RAGService.reindex_document from there to its return
ReindexIndex ==
    /\ Reindexing
    /\ ~ReindexReturned
    /\ \E out \in {reindex_step("awaited", last_call, store, chroma_collections,
                                 on_duplicate)} :
           /\ store' = out.store
           /\ last_result' = [document_id |-> last_call.document_id,
                              status |-> "completed",
                              deleted |-> last_result.first,
                              indexed |-> out.result]
    /\ UNCHANGED <<chroma_collections, on_duplicate, index_calls, last_call,
                   other_than_index>>

\* the most direct add_document_chunks calls of one run
MaxAdds == 2

\* chunk dictionaries as chunk_document shapes them, around given chunk texts
ChunkDictsOf(texts) ==
    [i \in 1..Len(texts) |->
        [chunk_id |-> i - 1,
         text |-> texts[i],
         metadata |-> [chunk_index |-> i - 1, total_chunks |-> Len(texts),
                       char_count |-> Len(texts[i])]]]

AddChunkLists ==
    {ChunkDictsOf(<<<<"o", "l", "d">>>>), ChunkDictsOf(<<<<"n", "e", "w">>>>),
     ChunkDictsOf(<<<<"o", "l", "d">>, <<"m", "o", "r", "e">>>>)}

\* ChromaDBService.add_document_chunks called on one collection
AddDocumentChunks(call) ==
    /\ index_calls < MaxAdds
    /\ LET out == add_document_chunks(call.agent_name, call.chunks, call, store,
                                      chroma_collections, on_duplicate)
       IN  /\ store' = [store EXCEPT ![call.agent_name] = out.units]
           /\ last_result' =
                  IF out.raised THEN [raised |-> TRUE, error |-> out.error]
                  ELSE [raised |-> FALSE, chunks_added |-> out.chunks_added]
    /\ last_call' = call
    /\ index_calls' = index_calls + 1
    /\ UNCHANGED <<chroma_collections, on_duplicate, other_than_index>>

\* ChromaDBService.delete_document_chunks called directly
DeleteDocumentChunks(call) ==
    /\ LET out == delete_document_chunks(call, store, chroma_collections)
       IN  /\ store' = out.store
           /\ last_result' = out.total_deleted
    /\ last_call' = call
    /\ UNCHANGED <<chroma_collections, on_duplicate, index_calls, other_than_index>>

---------------------------------------------------------------------------
(* EvidenceExtractor (langflow/components/evidence_extractor.py)           *)

\* the first n elements of a list (all of it when it is shorter, none for n <= 0)
Take(s, n) == IF n <= 0 THEN <<>> ELSE SubSeq(s, 1, Min(n, Len(s)))

\* re.finditer(pattern, text): the 0-based start and end of the successive
\* non-overlapping matches, leftmost first
RECURSIVE match_spans(_, _, _)
match_spans(items, t, pos) ==
    IF pos > Len(t) THEN <<>>
    ELSE LET m == MatchItems(items, 1, pos, t)
         IN  IF m = <<>> THEN match_spans(items, t, pos + 1)
             ELSE <<[start |-> m[1] - 1, end |-> m[Len(m)] - 1]>>
                      \o match_spans(items, t, Max(m[Len(m)], pos + 1))

\* _estimate_page_number assumes this many characters per page
CharsPerPage == 3000

estimate_page_number(position) == (position \div CharsPerPage) + 1

\* the evidence dictionary built around one match
evidence_item(type, t, span, highlighted_text, context_window) ==
    LET start == Max(0, span.start - context_window)
        end == Min(Len(t), span.end + context_window)
    IN  [type |-> type,
         quote |-> strip(SubSeq(t, start + 1, end)),
         highlighted_text |-> highlighted_text,
         page_number |-> estimate_page_number(span.start),
         character_position |-> span.start]

\* the evidence dictionaries of the first n matches of a pattern
evidence_of_matches(type, items, t, highlighted, n, context_window) ==
    LET spans == Take(match_spans(items, t, 1), n)
    IN  [k \in 1..Len(spans) |->
            evidence_item(type, t, spans[k],
                          IF highlighted = <<>>
                          THEN SubSeq(t, spans[k].start + 1, spans[k].end)
                          ELSE highlighted,
                          context_window)]

\* _find_regulation_references: the first two mentions of the label
find_regulation_references(t, regulation, context_window) ==
    IF regulation = <<>> THEN <<>>
    ELSE evidence_of_matches("regulation_reference", <<Lit(lower(regulation))>>, t,
                             regulation, 2, context_window)

\* the loop of _find_keyword_matches over keywords[i..]
RECURSIVE KeywordLoop(_, _, _, _, _, _)
KeywordLoop(t, keywords, i, context_window, max_matches, evidence) ==
    IF i > Len(keywords) \/ Len(evidence) >= max_matches THEN evidence
    ELSE KeywordLoop(t, keywords, i + 1, context_window, max_matches,
                     evidence \o evidence_of_matches(
                                     "keyword_match", <<Lit(lower(keywords[i]))>>, t,
                                     keywords[i], max_matches - Len(evidence),
                                     context_window))

find_keyword_matches(t, keywords, context_window, max_matches) ==
    KeywordLoop(t, keywords, 1, context_window, max_matches, <<>>)

LowerLetters == {LowerCase[i] : i \in DOMAIN LowerCase}

\* the patterns table of _find_technical_specifications, in dictionary order
SpecificationPatterns ==
    <<[spec_type |-> "u_value",
       items |-> <<Lit(<<"u">>), Cls({"-"} \cup Whitespace, 0, 1),
                   Lit(<<"v", "a", "l", "u", "e">>), Cls({"s"}, 0, 1),
                   Cls(Whitespace \cup {":", "="}, 1, -1)>> \o NumberItems
                 \o <<Spaces, Lit(<<"w", "/", "m", "²", "k">>)>>],
      [spec_type |-> "fire_rating",
       items |-> <<Cls(Digit, 1, -1), Spaces,
                   Alt(<<<<"m", "i", "n", "u", "t", "e">>, <<"m", "i", "n">>,
                         <<"h", "o", "u", "r">>, <<"h", "r">>>>), Spaces,
                   Lit(<<"f", "i", "r", "e">>), Spaces,
                   Lit(<<"r", "e", "s", "i", "s", "t", "a", "n", "c", "e">>)>>],
      [spec_type |-> "load_capacity",
       items |-> NumberItems \o <<Spaces, Lit(<<"k", "n", "/", "m", "²">>)>>],
      [spec_type |-> "thermal_resistance",
       items |-> <<Lit(<<"r">>), Cls({"-"} \cup Whitespace, 0, 1),
                   Lit(<<"v", "a", "l", "u", "e">>), Cls({"s"}, 0, 1),
                   Cls(Whitespace \cup {":", "="}, 1, -1)>> \o NumberItems],
      [spec_type |-> "thickness",
       items |-> <<Cls(Digit, 1, -1), Spaces, Lit(<<"m", "m">>), Spaces,
                   Lit(<<"t", "h", "i", "c", "k">>)>>]>>

\* the loop of _find_technical_specifications over the patterns i..: a match
\* is kept while fewer than two are held
RECURSIVE SpecificationLoop(_, _, _, _)
SpecificationLoop(t, i, context_window, evidence) ==
    IF i > Len(SpecificationPatterns) THEN evidence
    ELSE LET found == evidence_of_matches("technical_specification",
                                          SpecificationPatterns[i].items, t, <<>>,
                                          2 - Len(evidence), context_window)
         IN  SpecificationLoop(t, i + 1, context_window,
                 evidence \o [k \in 1..Len(found) |->
                                 Merge(found[k],
                                       [spec_type |->
                                           SpecificationPatterns[i].spec_type])])

find_technical_specifications(t, context_window) ==
    SpecificationLoop(t, 1, context_window, <<>>)

\* ([A-Za-z\s]+)\s*=\s*(\d+\.?\d*)\s*([A-Za-z/²³]+)
CalculationPattern ==
    <<Cls(LowerLetters \cup Whitespace, 1, -1), Spaces, Lit(<<"=">>), Spaces>>
    \o NumberItems \o <<Spaces, Cls(LowerLetters \cup {"/", "²", "³"}, 1, -1)>>

\* _find_calculations: the first two calculations
find_calculations(t, context_window) ==
    evidence_of_matches("calculation", CalculationPattern, t, <<>>, 2, context_window)

WordChars == LowerLetters \cup Digit \cup {"_"}

\* the maximal runs of word characters of s[i..], cur being the run so far
RECURSIVE WordRuns(_, _, _)
WordRuns(s, i, cur) ==
    IF i > Len(s) THEN (IF cur # <<>> THEN <<cur>> ELSE <<>>)
    ELSE IF s[i] \in WordChars THEN WordRuns(s, i + 1, Append(cur, s[i]))
         ELSE (IF cur # <<>> THEN <<cur>> ELSE <<>>) \o WordRuns(s, i + 1, <<>>)

stop_words ==
    {<<"t", "h", "e">>, <<"a">>, <<"a", "n">>, <<"a", "n", "d">>,
     <<"o", "r">>, <<"b", "u", "t">>, <<"i", "n">>, <<"o", "n">>,
     <<"a", "t">>, <<"t", "o">>, <<"f", "o", "r">>, <<"o", "f">>,
     <<"w", "i", "t", "h">>, <<"b", "y">>, <<"f", "r", "o", "m">>,
     <<"a", "s">>, <<"i", "s">>, <<"w", "a", "s">>, <<"a", "r", "e">>,
     <<"w", "e", "r", "e">>, <<"b", "e">>, <<"b", "e", "e", "n">>,
     <<"b", "e", "i", "n", "g">>, <<"h", "a", "v", "e">>, <<"h", "a", "s">>,
     <<"h", "a", "d">>, <<"d", "o">>, <<"d", "o", "e", "s">>,
     <<"d", "i", "d">>, <<"w", "i", "l", "l">>, <<"w", "o", "u", "l", "d">>,
     <<"s", "h", "o", "u", "l", "d">>, <<"c", "o", "u", "l", "d">>,
     <<"m", "a", "y">>, <<"m", "i", "g", "h", "t">>, <<"m", "u", "s", "t">>,
     <<"c", "a", "n">>, <<"t", "h", "i", "s">>, <<"t", "h", "a", "t">>,
     <<"t", "h", "e", "s", "e">>, <<"t", "h", "o", "s", "e">>, <<"i", "t">>,
     <<"i", "t", "s">>, <<"t", "h", "e", "y">>, <<"t", "h", "e", "i", "r">>,
     <<"t", "h", "e", "m">>}

\* _extract_keywords: re.findall(r'\b[A-Za-z]{4,}\b', description.lower())
\* without the stop words, then list(set(...))[:5]; a set of strings has no
\* order the program fixes, so every order of the distinct words may come out
extract_keywords(description) ==
    LET runs == WordRuns(lower(description), 1, <<>>)
        words == {runs[k] : k \in {j \in DOMAIN runs :
                                     /\ Len(runs[j]) >= 4
                                     /\ \A m \in DOMAIN runs[j] :
                                            runs[j][m] \in LowerLetters
                                     /\ runs[j] \notin stop_words}}
        n == Min(5, Cardinality(words))
    IN  {order \in [1..n -> words] :
            \A a, b \in 1..n : a # b => order[a] # order[b]}

\* _extract_evidence_for_finding without `evidence_items[:max_quotes]`
evidence_for_keywords_uncut(finding, keywords, t, context_window, max_quotes) ==
    LET regulation == Get(finding, "regulation", <<>>)
        all_items ==
            find_regulation_references(t, regulation, context_window)
            \o find_keyword_matches(
                   t, keywords, context_window,
                   max_quotes - Len(find_regulation_references(t, regulation,
                                                               context_window)))
            \o find_technical_specifications(t, context_window)
            \o (IF Get(finding, "requires_calculation", FALSE)
                THEN find_calculations(t, context_window) ELSE <<>>)
    IN  [k \in 1..Len(all_items) |->
            Merge(all_items[k], [finding_id |-> Get(finding, "id", <<>>),
                                 regulation |-> regulation])]

\* _extract_evidence_for_finding for one keyword list: the four searches in
\* turn, cut to max_quotes, then finding_id and regulation on every item
evidence_for_keywords(finding, keywords, t, context_window, max_quotes) ==
    LET regulation == Get(finding, "regulation", <<>>)
        regulation_evidence ==
            find_regulation_references(t, regulation, context_window)
        keyword_evidence ==
            find_keyword_matches(t, keywords, context_window,
                                 max_quotes - Len(regulation_evidence))
        spec_evidence == find_technical_specifications(t, context_window)
        calc_evidence ==
            IF Get(finding, "requires_calculation", FALSE)
            THEN find_calculations(t, context_window) ELSE <<>>
        all_items == regulation_evidence \o keyword_evidence \o spec_evidence
                     \o calc_evidence
        limited == Take(all_items, max_quotes)
    IN  [k \in 1..Len(limited) |->
            Merge(limited[k], [finding_id |-> Get(finding, "id", <<>>),
                               regulation |-> regulation])]

\* the lists _extract_evidence_for_finding may return
extract_evidence_for_finding(finding, t, context_window, max_quotes) ==
    LET given == Get(finding, "keywords", <<>>)
    IN  IF given # <<>>
        THEN {evidence_for_keywords(finding, given, t, context_window, max_quotes)}
        ELSE {evidence_for_keywords(finding, keywords, t, context_window, max_quotes) :
                 keywords \in extract_keywords(Get(finding, "description", <<>>))}

\* scaled-down context_window
ContextWindow == 4

\* the largest max_quotes_per_finding of a call
MaxQuotes == 4

\* the most fragments of a document handed to the extractor
MaxEvidenceFragments == 2

EvidenceFragments ==
    {<<"P", "a", "r", "t", " ", "B", "1", " ", "f", "i", "r", "e", " ", "d", "o", "o", "r", ".", " ">>,
     <<"P", "A", "R", "T", " ", "b", "1", " ", "6", "0", " ", "m", "i", "n", " ", "f", "i", "r", "e", " ", "r", "e", "s", "i", "s", "t", "a", "n", "c", "e", " ">>,
     <<"1", "0", "0", " ", "m", "m", " ", "t", "h", "i", "c", "k", " ", "l", "o", "a", "d", " ", "=", " ", "4", "5", " ", "k", "N", " ">>,
     <<"f", "i", "r", "e", " ">>}

EvidenceDocuments ==
    {Flatten(parts) : parts \in AllSeqs(EvidenceFragments, MaxEvidenceFragments)}

EvidenceFindings ==
    {Merge(Merge(base, keys), calc) :
        base \in {[id |-> "F1", description |-> <<"t", "h", "e", " ", "f", "i", "r", "e", " ", "d", "o", "o", "r">>],
                  [id |-> "F1", description |-> <<"t", "h", "e", " ", "f", "i", "r", "e", " ", "d", "o", "o", "r">>, regulation |-> <<"P", "a", "r", "t", " ", "B", "1">>]},
        keys \in {<<>>, [keywords |-> <<<<"f", "i", "r", "e">>>>], [keywords |-> <<<<"f", "i", "r", "e">>, <<"d", "o", "o", "r">>>>]},
        calc \in {<<>>, [requires_calculation |-> TRUE]}}

NoEvidenceCall == [max_quotes |-> 0]

EvidenceOff ==
    /\ evidence_document = <<>>
    /\ evidence_call = NoEvidenceCall
    /\ evidence_items = <<>>
    /\ evidence_pc = "off"

\* EvidenceExtractor._extract_evidence_for_finding
ExtractEvidenceForFinding(finding, max_quotes) ==
    /\ evidence_pc = "input"
    /\ evidence_items' \in extract_evidence_for_finding(finding, evidence_document,
                                                        ContextWindow, max_quotes)
    /\ evidence_call' = [finding |-> finding, max_quotes |-> max_quotes]
    /\ evidence_pc' = "done"
    /\ UNCHANGED <<evidence_document, pipeline_vars, routing_vars, agent_vars,
                   edge_vars>>

---------------------------------------------------------------------------
(* DocumentClassifier routing (langflow/components/document_classifier.py) *)

\* the keyword lists of _detect_disciplines with the discipline each appends,
\* in the order of the code
DisciplineKeywords ==
    <<[discipline |-> "structural",
       keywords |->
          <<<<"s", "t", "r", "u", "c", "t", "u", "r", "a", "l">>,
            <<"f", "o", "u", "n", "d", "a", "t", "i", "o", "n">>,
            <<"b", "e", "a", "m">>, <<"c", "o", "l", "u", "m", "n">>,
            <<"s", "l", "a", "b">>, <<"e", "u", "r", "o", "c", "o", "d", "e">>,
            <<"s", "t", "e", "e", "l", " ", "f", "r", "a", "m", "e">>,
            <<"c", "o", "n", "c", "r", "e", "t", "e">>>>],
      [discipline |-> "fire_safety",
       keywords |->
          <<<<"f", "i", "r", "e">>, <<"s", "m", "o", "k", "e">>,
            <<"s", "p", "r", "i", "n", "k", "l", "e", "r">>,
            <<"f", "i", "r", "e", " ", "a", "l", "a", "r", "m">>,
            <<"f", "i", "r", "e", " ", "r", "a", "t", "i", "n", "g">>,
            <<"m", "e", "a", "n", "s", " ", "o", "f", " ", "e", "s", "c", "a", "p", "e">>,
            <<"c", "o", "m", "p", "a", "r", "t", "m", "e", "n", "t", "a", "t", "i", "o", "n">>>>],
      [discipline |-> "building_envelope",
       keywords |->
          <<<<"t", "h", "e", "r", "m", "a", "l">>,
            <<"i", "n", "s", "u", "l", "a", "t", "i", "o", "n">>,
            <<"u", "-", "v", "a", "l", "u", "e">>,
            <<"g", "l", "a", "z", "i", "n", "g">>, <<"w", "i", "n", "d", "o", "w">>,
            <<"e", "x", "t", "e", "r", "n", "a", "l", " ", "w", "a", "l", "l">>,
            <<"r", "o", "o", "f">>,
            <<"w", "e", "a", "t", "h", "e", "r", "p", "r", "o", "o", "f", "i", "n", "g">>>>],
      [discipline |-> "mechanical_services",
       keywords |->
          <<<<"h", "v", "a", "c">>,
            <<"v", "e", "n", "t", "i", "l", "a", "t", "i", "o", "n">>,
            <<"h", "e", "a", "t", "i", "n", "g">>,
            <<"c", "o", "o", "l", "i", "n", "g">>,
            <<"p", "l", "u", "m", "b", "i", "n", "g">>,
            <<"d", "r", "a", "i", "n", "a", "g", "e">>,
            <<"w", "a", "t", "e", "r", " ", "s", "u", "p", "p", "l", "y">>,
            <<"a", "i", "r", " ", "h", "a", "n", "d", "l", "i", "n", "g">>>>],
      [discipline |-> "electrical_services",
       keywords |->
          <<<<"e", "l", "e", "c", "t", "r", "i", "c", "a", "l">>,
            <<"p", "o", "w", "e", "r">>, <<"l", "i", "g", "h", "t", "i", "n", "g">>,
            <<"d", "i", "s", "t", "r", "i", "b", "u", "t", "i", "o", "n", " ", "b", "o", "a", "r", "d">>,
            <<"c", "a", "b", "l", "e">>, <<"c", "i", "r", "c", "u", "i", "t">>,
            <<"b", "s", " ", "7", "6", "7", "1">>, <<"w", "i", "r", "i", "n", "g">>>>],
      [discipline |-> "accessibility",
       keywords |->
          <<<<"a", "c", "c", "e", "s", "s", "i", "b", "i", "l", "i", "t", "y">>,
            <<"d", "i", "s", "a", "b", "l", "e", "d", " ", "a", "c", "c", "e", "s", "s">>,
            <<"p", "a", "r", "t", " ", "m">>,
            <<"w", "h", "e", "e", "l", "c", "h", "a", "i", "r">>,
            <<"a", "c", "c", "e", "s", "s", "i", "b", "l", "e">>,
            <<"i", "n", "c", "l", "u", "s", "i", "v", "e", " ", "d", "e", "s", "i", "g", "n">>>>],
      [discipline |-> "environmental_sustainability",
       keywords |->
          <<<<"e", "n", "e", "r", "g", "y", " ", "e", "f", "f", "i", "c", "i", "e", "n", "c", "y">>,
            <<"b", "r", "e", "e", "a", "m">>, <<"l", "e", "e", "d">>,
            <<"s", "u", "s", "t", "a", "i", "n", "a", "b", "i", "l", "i", "t", "y">>,
            <<"c", "a", "r", "b", "o", "n">>,
            <<"r", "e", "n", "e", "w", "a", "b", "l", "e">>,
            <<"s", "o", "l", "a", "r">>,
            <<"e", "n", "v", "i", "r", "o", "n", "m", "e", "n", "t", "a", "l">>>>],
      [discipline |-> "health_safety",
       keywords |->
          <<<<"h", "e", "a", "l", "t", "h", " ", "a", "n", "d", " ", "s", "a", "f", "e", "t", "y">>,
            <<"c", "d", "m">>,
            <<"c", "o", "n", "s", "t", "r", "u", "c", "t", "i", "o", "n", " ", "p", "h", "a", "s", "e", " ", "p", "l", "a", "n">>,
            <<"r", "i", "s", "k", " ", "a", "s", "s", "e", "s", "s", "m", "e", "n", "t">>,
            <<"m", "e", "t", "h", "o", "d", " ", "s", "t", "a", "t", "e", "m", "e", "n", "t">>>>],
      [discipline |-> "quality_assurance",
       keywords |->
          <<<<"t", "e", "s", "t", "i", "n", "g">>,
            <<"c", "o", "m", "m", "i", "s", "s", "i", "o", "n", "i", "n", "g">>,
            <<"i", "n", "s", "p", "e", "c", "t", "i", "o", "n">>,
            <<"c", "e", "r", "t", "i", "f", "i", "c", "a", "t", "e">>,
            <<"t", "e", "s", "t", " ", "r", "e", "p", "o", "r", "t">>,
            <<"c", "o", "m", "p", "l", "i", "a", "n", "c", "e", " ", "c", "e", "r", "t", "i", "f", "i", "c", "a", "t", "e">>>>],
      [discipline |-> "legal_contracts",
       keywords |->
          <<<<"c", "o", "n", "t", "r", "a", "c", "t">>, <<"j", "c", "t">>,
            <<"n", "e", "c">>, <<"w", "a", "r", "r", "a", "n", "t", "y">>,
            <<"g", "u", "a", "r", "a", "n", "t", "e", "e">>,
            <<"a", "g", "r", "e", "e", "m", "e", "n", "t">>,
            <<"t", "e", "n", "d", "e", "r">>>>],
      [discipline |-> "specialist_systems",
       keywords |->
          <<<<"l", "i", "f", "t">>, <<"e", "l", "e", "v", "a", "t", "o", "r">>,
            <<"e", "s", "c", "a", "l", "a", "t", "o", "r">>, <<"b", "m", "s">>,
            <<"b", "u", "i", "l", "d", "i", "n", "g", " ", "m", "a", "n", "a", "g", "e", "m", "e", "n", "t">>,
            <<"a", "c", "c", "e", "s", "s", " ", "c", "o", "n", "t", "r", "o", "l">>,
            <<"c", "c", "t", "v">>>>],
      [discipline |-> "external_works",
       keywords |->
          <<<<"d", "r", "a", "i", "n", "a", "g", "e">>,
            <<"l", "a", "n", "d", "s", "c", "a", "p", "i", "n", "g">>,
            <<"p", "a", "v", "i", "n", "g">>, <<"r", "o", "a", "d", "s">>,
            <<"h", "i", "g", "h", "w", "a", "y", "s">>, <<"s", "u", "d", "s">>,
            <<"a", "t", "t", "e", "n", "u", "a", "t", "i", "o", "n">>>>],
      [discipline |-> "finishes_interiors",
       keywords |->
          <<<<"f", "i", "n", "i", "s", "h", "e", "s">>,
            <<"f", "l", "o", "o", "r", "i", "n", "g">>,
            <<"c", "e", "i", "l", "i", "n", "g">>,
            <<"p", "a", "r", "t", "i", "t", "i", "o", "n">>,
            <<"a", "c", "o", "u", "s", "t", "i", "c">>,
            <<"i", "n", "t", "e", "r", "i", "o", "r">>,
            <<"j", "o", "i", "n", "e", "r", "y">>>>]>>

ManualClassification == "requires_manual_classification"

\* _detect_disciplines
detect_disciplines(t, filename) ==
    LET text_lower == lower(t)
        found == SelectSeq(DisciplineKeywords,
                           LAMBDA d : AnyIn(d.keywords, text_lower))
    IN  IF found = <<>> THEN <<ManualClassification>>
        ELSE [k \in 1..Len(found) |-> found[k].discipline]

\* _determine_agents
determine_agents(disciplines, doc_type) == disciplines

\* priority_map.get(document_type, [])
priority_map(doc_type) ==
    CASE doc_type = "fire_strategy" -> <<"fire_safety">>
      [] doc_type = "calculation" -> <<"structural">>
      [] OTHER -> <<>>

\* _prioritize_agents
prioritize_agents(agents, doc_type) ==
    LET priority_agents == priority_map(doc_type)
        other_agents ==
            SelectSeq(agents,
                      LAMBDA a : \A k \in DOMAIN priority_agents :
                                     priority_agents[k] # a)
    IN  priority_agents \o other_agents

\* DocumentClassifier.build: the exception _classify_document_type raises
\* leaves it; the fields of the result that routing does not read are left out
classifier_build(t, filename) ==
    LET doc_type == classify_document_type(t, filename)
        disciplines == detect_disciplines(t, filename)
        agents_to_invoke == determine_agents(disciplines, doc_type)
    IN  IF doc_type = TypeError THEN [raised |-> TRUE, error |-> TypeError]
        ELSE [raised |-> FALSE,
              document_type |-> doc_type,
              disciplines |-> disciplines,
              agents_to_invoke |-> agents_to_invoke,
              routing_instructions |->
                 [parallel_processing |-> Len(agents_to_invoke) > 1,
                  priority_agents |-> prioritize_agents(agents_to_invoke, doc_type)]]

\* the most fragments a routed text is made of
MaxRoutingFragments == 2

RoutingFragments ==
    {<<"S", "c", "a", "l", "e", " ", "1", ":", "5", "0", " ">>,
     <<"s", "t", "e", "e", "l", " ", "b", "e", "a", "m", " ">>,
     <<"f", "i", "r", "e", " ", "a", "l", "a", "r", "m", " ">>,
     <<"d", "r", "a", "i", "n", "a", "g", "e", " ">>,
     <<"F", "i", "r", "e", " ", "S", "a", "f", "e", "t", "y", " ", "S", "t", "r", "a", "t", "e", "g", "y", " ">>,
     <<"L", "o", "a", "d", " ", "c", "a", "s", "e", " ", "2", " ">>,
     <<"n", "o", "t", "e", "s", " ">>}

RoutingTexts ==
    {Flatten(parts) : parts \in AllSeqs(RoutingFragments, MaxRoutingFragments)}

RoutingFilenames == {<<>>, <<"p", "l", "a", "n", ".", "p", "d", "f">>}

DocumentTypes ==
    {"drawing", "specification", "calculation", "report", "fire_strategy",
     "design_statement", "schedule", "certificate"}

\* the agent lists handed to _prioritize_agents: what _detect_disciplines
\* returns for the routed texts
RoutingAgentLists == {detect_disciplines(t, <<>>) : t \in RoutingTexts}

NoRoutingCall == [op |-> "none"]

RoutingOff ==
    /\ routing_text = <<>>
    /\ routing_filename = <<>>
    /\ routing_call = NoRoutingCall
    /\ routing_result = NoRoutingCall
    /\ routing_pc = "off"

\* DocumentClassifier.build on the text and filename
ClassifierBuild ==
    /\ routing_pc = "input"
    /\ routing_call' = [op |-> "build"]
    /\ routing_result' = classifier_build(routing_text, routing_filename)
    /\ routing_pc' = "built"
    /\ UNCHANGED <<routing_text, routing_filename, pipeline_vars, evidence_vars,
                   agent_vars,
                   edge_vars>>

\* DocumentClassifier._prioritize_agents called on an agent list
PrioritizeAgents(agents, doc_type) ==
    /\ routing_pc = "input"
    /\ routing_call' = [op |-> "_prioritize_agents", agents |-> agents,
                        document_type |-> doc_type]
    /\ routing_result' = prioritize_agents(agents, doc_type)
    /\ routing_pc' = "prioritized"
    /\ UNCHANGED <<routing_text, routing_filename, pipeline_vars, evidence_vars,
                   agent_vars,
                   edge_vars>>

\* RAGService.index_document called with agent_names = agents_to_invoke of
\* the classification, on the connected service
IndexClassified(tenant_id, document_id, project_id) ==
    /\ routing_pc = "built"
    /\ ~routing_result.raised
    /\ chroma_collections # {}
    /\ LET call == [op |-> "index_document", tenant_id |-> tenant_id,
                    document_id |-> document_id, project_id |-> project_id,
                    text |-> routing_text, document_metadata |-> <<>>,
                    agent_names |-> routing_result.agents_to_invoke,
                    provider_errors |-> {}, cancelled |-> None]
           out == index_document(call, store, chroma_collections, on_duplicate)
       IN  /\ store' = out.store
           /\ last_result' = out.result
           /\ last_call' = call
    /\ routing_pc' = "indexed"
    /\ UNCHANGED <<chroma_collections, on_duplicate, index_calls, chunk_vars,
                   score_vars, reg_vars, classify_vars, evidence_vars,
                   routing_text, routing_filename, routing_call, routing_result,
                   agent_vars,
                   edge_vars>>

---------------------------------------------------------------------------
(* FireSafetyAgent (backend/app/services/ai_agents/fire_safety_agent.py)   *)
(* and run_ai_analysis (backend/app/api/v1/endpoints/ai.py)                *)

GreenStatus == <<"g", "r", "e", "e", "n">>

AmberStatus == <<"a", "m", "b", "e", "r">>

RedStatus == <<"r", "e", "d">>

\* finding.get("status", "amber").lower()
status_of_finding(finding) == lower(Get(finding, "status", AmberStatus))

\* status_counts[status] after the loop over the findings
status_count(agent_state_findings, status) ==
    Cardinality({k \in DOMAIN agent_state_findings :
                    status_of_finding(agent_state_findings[k]) = status})

\* determine_overall_status: the counts per status, the average confidence
\* (0.5 without findings) and the verdict with the kind of reasoning given
determine_overall_status(agent_state_findings) ==
    LET red == status_count(agent_state_findings, RedStatus)
        amber == status_count(agent_state_findings, AmberStatus)
        total_confidence ==
            SumSeq([k \in DOMAIN agent_state_findings |->
                       Get(agent_state_findings[k], "confidence", R(1, 2))])
    IN  [overall_status |->
            IF red > 0 THEN "red" ELSE IF amber > 0 THEN "amber" ELSE "green",
         confidence_score |->
            IF agent_state_findings # <<>>
            THEN RDivInt(total_confidence, Len(agent_state_findings))
            ELSE R(1, 2),
         reasoning |->
            IF red > 0 THEN [kind |-> "non_compliant", count |-> red]
            ELSE IF amber > 2 THEN [kind |-> "needs_clarification", count |-> amber]
            ELSE IF amber > 0 THEN [kind |-> "mostly_compliant", count |-> amber]
            ELSE [kind |-> "adequately_addressed", count |-> 0]]

\* what run_ai_analysis stores as document.compliance_findings; finding["status"]
\* raises KeyError for a finding without the key, and the document is marked
\* as failed
stored_compliance_findings(analysis_result) ==
    LET listed == analysis_result.compliance_findings
        count(status) ==
            Cardinality({k \in DOMAIN listed : lower(listed[k].status) = status})
    IN  IF \E k \in DOMAIN listed : "status" \notin DOMAIN listed[k]
        THEN [error |-> "KeyError: 'status'"]
        ELSE [overall_status |-> analysis_result.overall_status,
              confidence_score |-> analysis_result.confidence_score,
              findings |-> [k \in DOMAIN listed |->
                               [status |-> lower(listed[k].status)]],
              green_count |-> count(GreenStatus),
              amber_count |-> count(AmberStatus),
              red_count |-> count(RedStatus)]

\* the most findings of one analysis (the agent checks five requirements)
MaxAgentFindings == 3

\* the findings check_compliance may append: the model's answer as parsed
\* (any status text, the keys it chose to give) or the fallback finding
AgentFindingInputs ==
    {[status |-> GreenStatus, confidence |-> R(9, 10)],
     [status |-> AmberStatus, confidence |-> R(1, 2)],
     [status |-> RedStatus, confidence |-> R(9, 10)],
     [status |-> <<"G", "R", "E", "E", "N">>, confidence |-> R(3, 4)],
     [status |-> <<"c", "o", "m", "p", "l", "i", "a", "n", "t">>, confidence |-> R(9, 10)],
     [confidence |-> R(1, 2)]}

NoVerdict == [overall_status |-> "none"]

AgentOff ==
    /\ agent_findings = <<>>
    /\ agent_verdict = NoVerdict
    /\ stored_findings = NoVerdict
    /\ agent_pc = "off"

\* check_compliance appends the finding of the next requirement
CheckCompliance(finding) ==
    /\ agent_pc = "input"
    /\ Len(agent_findings) < MaxAgentFindings
    /\ agent_findings' = Append(agent_findings, finding)
    /\ UNCHANGED <<agent_verdict, stored_findings, agent_pc, pipeline_vars,
                   evidence_vars, routing_vars,
                   edge_vars>>

\* FireSafetyAgent.determine_overall_status on the findings held
DetermineOverallStatus ==
    /\ agent_pc = "input"
    /\ agent_verdict' = determine_overall_status(agent_findings)
    /\ agent_pc' = "determined"
    /\ UNCHANGED <<agent_findings, stored_findings, pipeline_vars, evidence_vars,
                   routing_vars,
                   edge_vars>>

\* run_ai_analysis stores the verdict on the document
StoreComplianceFindings ==
    /\ agent_pc = "determined"
    /\ stored_findings' =
           stored_compliance_findings(
               [overall_status |-> agent_verdict.overall_status,
                confidence_score |-> agent_verdict.confidence_score,
                compliance_findings |-> agent_findings])
    /\ agent_pc' = "stored"
    /\ UNCHANGED <<agent_findings, agent_verdict, pipeline_vars, evidence_vars,
                   routing_vars,
                   edge_vars>>

---------------------------------------------------------------------------
(* DocumentProcessor.chunk_text                                            *)
(*   (backend/app/services/document_processor.py)                          *)

\* the position that a str method or a slice reads an index i as, in a
\* text of n characters
PyIndex(i, n) == IF i < 0 THEN Max(0, i + n) ELSE Min(i, n)

\* t[i:j]
PySlice(t, i, j) ==
    LET a == PyIndex(i, Len(t))
        b == PyIndex(j, Len(t))
    IN IF a >= b THEN <<>> ELSE SubSeq(t, a + 1, b)

\* t.rfind(sub, i, j)
rfind(t, sub, i, j) ==
    LET a == PyIndex(i, Len(t))
        b == PyIndex(j, Len(t))
        found == {k \in a..(b - Len(sub)) : SubSeq(t, k + 1, k + Len(sub)) = sub}
    IN IF found = {} THEN 0 - 1 ELSE CHOOSE k \in found : \A m \in found : m <= k

\* the arguments chunk_size and chunk_overlap of chunk_text
ProcChunkSize == 5

ProcChunkOverlap == 2

\* max(sentence_ends) of one iteration
sentence_end(t, start, end) ==
    LET sentence_ends == {rfind(t, <<".", " ">>, start, end),
                          rfind(t, <<"!", " ">>, start, end),
                          rfind(t, <<"?", " ">>, start, end),
                          rfind(t, <<".", "\n">>, start, end)}
    IN CHOOSE k \in sentence_ends : \A m \in sentence_ends : m <= k

\* the value of end when the chunk of one iteration is cut
chunk_end(t, start, chunk_size) ==
    LET end == start + chunk_size
    IN IF end < Len(t) /\ sentence_end(t, start, end) > start
       THEN sentence_end(t, start, end) + 1
       ELSE end

\* the list chunks after the iteration that begins at start
chunks_after(t, start, chunk_size, cs) ==
    LET end == chunk_end(t, start, chunk_size)
        piece == strip(PySlice(t, start, end))
    IN IF piece # <<>>
       THEN Append(cs, [text |-> piece, chunk_index |-> Len(cs),
                        start_char |-> start, end_char |-> end])
       ELSE cs

\* the value of start after the iteration that begins at start
next_start(t, start, chunk_size, chunk_overlap) ==
    chunk_end(t, start, chunk_size) - chunk_overlap

MaxProcTextLen == 7

MaxProcIterations == 4

ProcChars == {"a", ".", " "}

ProcTexts == UNION {[1..n -> ProcChars] : n \in 0..MaxProcTextLen}

ProcOff ==
    /\ proc_text = <<>>
    /\ proc_start = 0
    /\ proc_chunks = <<>>
    /\ proc_iterations = 0
    /\ proc_pc = "off"

\* chunk_text up to the first test of the while condition
ChunkTextEnter ==
    /\ proc_pc = "input"
    /\ proc_start' = 0
    /\ proc_chunks' = <<>>
    /\ proc_pc' = IF proc_text = <<>> THEN "done" ELSE "loop"
    /\ UNCHANGED <<proc_text, proc_iterations, pipeline_vars, evidence_vars,
                   routing_vars, agent_vars, rate_vars>>

\* one iteration of the while loop of chunk_text
ChunkTextIteration ==
    /\ proc_pc = "loop"
    /\ proc_iterations < MaxProcIterations
    /\ proc_chunks' = chunks_after(proc_text, proc_start, ProcChunkSize, proc_chunks)
    /\ proc_start' = next_start(proc_text, proc_start, ProcChunkSize, ProcChunkOverlap)
    /\ proc_iterations' = proc_iterations + 1
    /\ proc_pc' = IF proc_start' >= Len(proc_text) THEN "done" ELSE "loop"
    /\ UNCHANGED <<proc_text, pipeline_vars, evidence_vars, routing_vars,
                   agent_vars, rate_vars>>

---------------------------------------------------------------------------
(* RateLimiter.check_rate_limit (backend/app/middleware/rate_limiter.py)   *)
(* One bucket key; every caller passes the same max_requests and           *)
(* window_seconds.  A call is two Redis pipelines with an await between    *)
(* them, so calls of concurrent requests interleave between the two.       *)

\* the arguments max_requests and window_seconds
MaxRequests == 2

WindowSeconds == 2

MaxCallers == 2

MaxRateCalls == 3

MaxTime == 2

Callers == 1..MaxCallers

IdleCaller == [pc |-> "idle"]

\* min(max_requests, current_tokens + tokens_to_add), counted in units of
\* 1/window_seconds of a token
refilled_tokens(current_tokens, last_update, now, max_requests, window_seconds) ==
    Min(max_requests * window_seconds,
        current_tokens * window_seconds + (now - last_update) * max_requests)

\* allowed, for the locals a call read
rate_limit_allowed(l, max_requests, window_seconds) ==
    refilled_tokens(l.current_tokens, l.last_update, l.now, max_requests,
                    window_seconds) >= window_seconds

\* int(new_tokens), for the locals a call read
rate_limit_new_tokens(l, max_requests, window_seconds) ==
    LET current == refilled_tokens(l.current_tokens, l.last_update, l.now,
                                   max_requests, window_seconds)
    IN IF current >= window_seconds
       THEN (current - window_seconds) \div window_seconds
       ELSE current \div window_seconds

\* the bucket after the keys written at written_at with a time to live of
\* window_seconds * 2 have been looked at at time now
redis_at(redis, now, window_seconds) ==
    IF redis # <<>> /\ now - redis.last_update >= window_seconds * 2
    THEN <<>>
    ELSE redis

RateOff ==
    /\ rate_redis = <<>>
    /\ rate_now = 0
    /\ rate_local = <<>>
    /\ rate_calls = 0
    /\ rate_allowed = 0
    /\ rate_failures = 0
    /\ rate_budget = 0
    /\ rate_pc = "off"

EdgeOff == ProcOff /\ RateOff

\* check_rate_limit when self.enabled is false
CheckRateLimitDisabled(p) ==
    /\ rate_pc = "disabled"
    /\ rate_calls < MaxRateCalls
    /\ rate_calls' = rate_calls + 1
    /\ rate_allowed' = rate_allowed + 1
    /\ UNCHANGED <<rate_redis, rate_now, rate_local, rate_failures, rate_budget,
                   rate_pc, pipeline_vars, evidence_vars, routing_vars,
                   agent_vars, proc_vars>>

\* check_rate_limit up to the end of the first pipe.execute()
CheckRateLimitRead(p, redis_ok) ==
    /\ rate_pc = "enabled"
    /\ rate_local[p].pc = "idle"
    /\ rate_calls < MaxRateCalls
    /\ rate_calls' = rate_calls + 1
    /\ IF redis_ok
       THEN /\ rate_local' = [rate_local EXCEPT ![p] =
                  [pc |-> "update",
                   now |-> rate_now,
                   current_tokens |-> Get(rate_redis, "tokens", MaxRequests),
                   last_update |-> Get(rate_redis, "last_update", rate_now)]]
            /\ UNCHANGED <<rate_allowed, rate_failures>>
       ELSE /\ rate_allowed' = rate_allowed + 1
            /\ rate_failures' = rate_failures + 1
            /\ UNCHANGED rate_local
    /\ UNCHANGED <<rate_redis, rate_now, rate_budget, rate_pc, pipeline_vars,
                   evidence_vars, routing_vars, agent_vars, proc_vars>>

\* check_rate_limit from the token refill to its return
CheckRateLimitUpdate(p, redis_ok) ==
    /\ rate_pc = "enabled"
    /\ rate_local[p].pc = "update"
    /\ rate_local' = [rate_local EXCEPT ![p] = IdleCaller]
    /\ IF redis_ok
       THEN /\ rate_redis' =
                  [tokens |-> rate_limit_new_tokens(rate_local[p], MaxRequests,
                                                    WindowSeconds),
                   last_update |-> rate_local[p].now]
            /\ rate_allowed' =
                  IF rate_limit_allowed(rate_local[p], MaxRequests, WindowSeconds)
                  THEN rate_allowed + 1
                  ELSE rate_allowed
            /\ UNCHANGED rate_failures
       ELSE /\ rate_allowed' = rate_allowed + 1
            /\ rate_failures' = rate_failures + 1
            /\ UNCHANGED rate_redis
    /\ UNCHANGED <<rate_now, rate_calls, rate_budget, rate_pc, pipeline_vars,
                   evidence_vars, routing_vars, agent_vars, proc_vars>>

\* a second passes on the clock of time.time() and of Redis
RateTick ==
    /\ rate_pc = "enabled"
    /\ rate_now < MaxTime
    /\ rate_now' = rate_now + 1
    /\ rate_redis' = redis_at(rate_redis, rate_now + 1, WindowSeconds)
    /\ UNCHANGED <<rate_local, rate_calls, rate_allowed, rate_failures,
                   rate_budget, rate_pc, pipeline_vars, evidence_vars,
                   routing_vars, agent_vars, proc_vars>>

LateOff == EvidenceOff /\ RoutingOff /\ AgentOff /\ EdgeOff

---------------------------------------------------------------------------
(* Specifications: each exercises one component, the others stay idle      *)

InitChunk ==
    /\ text \in AllSeqs(Alphabet, MaxTextLen)
    /\ chunks = <<>>
    /\ chunk_pc = "input"
    /\ ScoreOff /\ RegOff /\ ClassifyOff /\ IndexOff /\ LateOff

NextChunk == ChunkDocument

SpecChunk == InitChunk /\ [][NextChunk]_vars

InitPages ==
    /\ text \in PagedTexts(MaxPages)
    /\ chunks = <<>>
    /\ chunk_pc = "input"
    /\ ScoreOff /\ RegOff /\ ClassifyOff /\ IndexOff /\ LateOff

NextPages == \E metadata \in ChunkMetadata : ChunkWithPageContext(metadata)

SpecPages == InitPages /\ [][NextPages]_vars

InitScore ==
    /\ findings = <<>>
    /\ calibrated_findings = <<>>
    /\ calc_args = DefaultCalcArgs
    /\ scored_findings = <<>>
    /\ overall_status = "none"
    /\ score_args = DefaultScoreArgs
    /\ calib_in = NoCalibration
    /\ calib_out = R(0, 1)
    /\ score_pc = "input"
    /\ ChunkOff /\ RegOff /\ ClassifyOff /\ IndexOff /\ LateOff

NextScore ==
    \/ \E f \in FindingInputs : AddFinding(f)
    \/ \E c \in CalculatorSettings : CalculatorBuild(c[1], c[2])
    \/ \E t \in ThresholdSettings, strict \in BOOLEAN :
           ScoreRawFindings(t[1], t[2], strict)
    \/ \E t \in ThresholdSettings, strict \in BOOLEAN :
           ScoreCalibratedFindings(t[1], t[2], strict)
    \/ \E args \in [base_confidence : UnitGrid, evidence_quality : UnitGrid,
                     regulation_clarity : UnitGrid, document_factor : UnitGrid,
                     agent_match : UnitGrid] : CalibrateConfidence(args)

SpecScore == InitScore /\ [][NextScore]_vars

InitReg ==
    /\ document_text \in DocumentTexts
    /\ requirements_list = <<>>
    /\ build_result = NoBuildResult
    /\ checked_requirement = NoRequirement
    /\ checked_finding = NoFinding
    /\ reg_pc = "input"
    /\ ChunkOff /\ ScoreOff /\ ClassifyOff /\ IndexOff /\ LateOff

NextReg ==
    \/ \E req \in RequirementTemplates : AddRequirement(req)
    \/ \E agent_type \in AgentTypes : RegulationCheckerBuild(agent_type)
    \/ \E req \in RequirementTemplates, agent_type \in AgentTypes :
           CheckRequirement(req, agent_type)

SpecReg == InitReg /\ [][NextReg]_vars

InitClassify ==
    /\ classified_text \in ClassifyTexts
    /\ classified_filename \in ClassifyFilenames
    /\ document_type = "none"
    /\ classify_pc = "input"
    /\ ChunkOff /\ ScoreOff /\ RegOff /\ IndexOff /\ LateOff

NextClassify == ClassifyDocumentType

SpecClassify == InitClassify /\ [][NextClassify]_vars

\* a write is abandoned only in calls that are otherwise undisturbed
IndexCalls ==
    {call \in [op : {"index_document"}, tenant_id : Tenants,
               document_id : DocumentIds, project_id : ProjectIds,
               text : IndexTexts, document_metadata : DocumentMetadata,
               agent_names : AgentNameLists, provider_errors : FailureSets,
               cancelled : Abandoned] :
        call.cancelled # None =>
            /\ call.provider_errors = {}
            /\ call.document_metadata = <<>>
            /\ call.text # <<>>}

\* a query reads one collection: only that one's failure bears on it
QueryCalls ==
    {call \in [op : {"query_for_context"}, agent_name : QueryAgents,
               tenant_id : Tenants, n_results : ResultCounts,
               document_id : DocumentIds \cup {None},
               project_id : ProjectIds \cup {None}, provider_errors : FailureSets] :
        call.provider_errors \subseteq {call.agent_name}}

DeleteCalls ==
    [op : {"delete_document_from_index"}, tenant_id : Tenants,
     document_id : DocumentIds, provider_errors : FailureSets]

Init ==
    /\ chroma_collections = {}
    /\ store = [c \in CollectionNames |-> {}]
    /\ on_duplicate \in {"raise", "ignore"}
    /\ index_calls = 0
    /\ last_call = NoCall
    /\ last_result = NoCall
    /\ ChunkOff /\ ScoreOff /\ RegOff /\ ClassifyOff /\ LateOff

Next ==
    \/ Connect
    \/ \E call \in IndexCalls : IndexDocument(call)
    \/ \E call \in QueryCalls : QueryForContext(call)
    \/ \E call \in DeleteCalls : DeleteDocumentFromIndex(call)

Spec == Init /\ [][Next]_vars

AddCalls ==
    [op : {"add_document_chunks"}, agent_name : Unreliable, tenant_id : Tenants,
     document_id : DocumentIds, project_id : ProjectIds, chunks : AddChunkLists,
     provider_errors : FailureSets]

DirectDeleteCalls ==
    [op : {"delete_document_chunks"}, tenant_id : Tenants,
     document_id : DocumentIds, provider_errors : FailureSets]

\* the collection service used directly
NextCollection ==
    \/ Connect
    \/ \E call \in AddCalls : AddDocumentChunks(call)
    \/ \E call \in DirectDeleteCalls : DeleteDocumentChunks(call)

SpecCollection == Init /\ [][NextCollection]_vars

ReindexCalls ==
    [op : {"reindex_document"}, tenant_id : Tenants, document_id : DocumentIds,
     project_id : ProjectIds, text : IndexTexts, document_metadata : {<<>>},
     agent_names : AgentNameLists, provider_errors : FailureSets,
     delete_errors : FailureSets, cancelled : {None}]

\* indexing, deleting and one reindex of a document
NextReindex ==
    \/ Connect
    \/ \E call \in IndexCalls : IndexDocument(call)
    \/ \E call \in DeleteCalls : DeleteDocumentFromIndex(call)
    \/ \E call \in ReindexCalls : ReindexDelete(call)
    \/ ReindexIndex

SpecReindex == Init /\ [][NextReindex]_vars

InitEvidence ==
    /\ evidence_document \in EvidenceDocuments
    /\ evidence_call = NoEvidenceCall
    /\ evidence_items = <<>>
    /\ evidence_pc = "input"
    /\ ChunkOff /\ ScoreOff /\ RegOff /\ ClassifyOff /\ IndexOff /\ RoutingOff /\ AgentOff
    /\ EdgeOff

NextEvidence ==
    \E finding \in EvidenceFindings, max_quotes \in 0..MaxQuotes :
        ExtractEvidenceForFinding(finding, max_quotes)

SpecEvidence == InitEvidence /\ [][NextEvidence]_vars

InitRouting ==
    /\ routing_text \in RoutingTexts
    /\ routing_filename \in RoutingFilenames
    /\ routing_call = NoRoutingCall
    /\ routing_result = NoRoutingCall
    /\ routing_pc = "input"
    /\ chroma_collections = {}
    /\ store = [c \in CollectionNames |-> {}]
    /\ on_duplicate = "raise"
    /\ index_calls = 0
    /\ last_call = NoCall
    /\ last_result = NoCall
    /\ ChunkOff /\ ScoreOff /\ RegOff /\ ClassifyOff /\ EvidenceOff /\ AgentOff
    /\ EdgeOff

NextRouting ==
    \/ Connect
    \/ ClassifierBuild
    \/ \E agents \in RoutingAgentLists, doc_type \in DocumentTypes :
           PrioritizeAgents(agents, doc_type)
    \/ \E tenant_id \in Tenants, document_id \in DocumentIds,
          project_id \in ProjectIds :
           IndexClassified(tenant_id, document_id, project_id)

SpecRouting == InitRouting /\ [][NextRouting]_vars

InitAgent ==
    /\ agent_findings = <<>>
    /\ agent_verdict = NoVerdict
    /\ stored_findings = NoVerdict
    /\ agent_pc = "input"
    /\ ChunkOff /\ ScoreOff /\ RegOff /\ ClassifyOff /\ IndexOff
    /\ EvidenceOff /\ RoutingOff /\ EdgeOff

NextAgent ==
    \/ \E finding \in AgentFindingInputs : CheckCompliance(finding)
    \/ DetermineOverallStatus
    \/ StoreComplianceFindings

SpecAgent == InitAgent /\ [][NextAgent]_vars

InitProcessor ==
    /\ proc_text \in ProcTexts
    /\ proc_start = 0
    /\ proc_chunks = <<>>
    /\ proc_iterations = 0
    /\ proc_pc = "input"
    /\ ChunkOff /\ ScoreOff /\ RegOff /\ ClassifyOff /\ IndexOff
    /\ EvidenceOff /\ RoutingOff /\ AgentOff /\ RateOff

NextProcessor ==
    \/ ChunkTextEnter
    \/ ChunkTextIteration

SpecProcessor == InitProcessor /\ [][NextProcessor]_vars

\* the bucket a run starts with: never written, or left by earlier calls
\* of this second
RateBuckets ==
    {<<>>} \cup {[tokens |-> k, last_update |-> 0] : k \in 0..MaxRequests}

InitRate ==
    /\ rate_redis \in RateBuckets
    /\ rate_now = 0
    /\ rate_local = [p \in Callers |-> IdleCaller]
    /\ rate_calls = 0
    /\ rate_allowed = 0
    /\ rate_failures = 0
    /\ rate_budget = Get(rate_redis, "tokens", MaxRequests)
    /\ rate_pc \in {"enabled", "disabled"}
    /\ ChunkOff /\ ScoreOff /\ RegOff /\ ClassifyOff /\ IndexOff
    /\ EvidenceOff /\ RoutingOff /\ AgentOff /\ ProcOff

NextRate ==
    \/ \E p \in Callers : CheckRateLimitDisabled(p)
    \/ \E p \in Callers, redis_ok \in BOOLEAN : CheckRateLimitRead(p, redis_ok)
    \/ \E p \in Callers, redis_ok \in BOOLEAN : CheckRateLimitUpdate(p, redis_ok)
    \/ RateTick

SpecRate == InitRate /\ [][NextRate]_vars

---------------------------------------------------------------------------
(* Claims                                                                  *)

\* C1: query_agent_collection for tenant A returns only units whose stored
\* tenant_id metadata equals A and never a unit indexed under another tenant,
\* and tenant_id equality is in the where filter whatever optional filters
\* are passed.
C1_TenantIsolationOnRead ==
    Answered =>
        /\ query_where(last_call.tenant_id, last_call.document_id,
                       last_call.project_id).tenant_id = last_call.tenant_id
        /\ \A u \in last_result :
              /\ u.metadata.tenant_id = last_call.tenant_id
              /\ u.id[1] = last_call.tenant_id

\* the collections an index_document call writes to
TargetsOf(call) ==
    IF call.agent_names = NoAgentNames THEN CollectionNames
    ELSE {call.agent_names[i] : i \in DOMAIN call.agent_names} \cap CollectionNames

\* the ids of the n chunks of a call
NewIds(call, n) ==
    {chunk_key(call.tenant_id, call.document_id, k) : k \in 0..(n - 1)}

\* the write of the call's n chunks to collection c raises
WriteRaises(c, call, n) ==
    \/ c \notin chroma_collections
    \/ c \in call.provider_errors
    \/ on_duplicate = "raise" /\ NewIds(call, n) \cap IdsOf(store[c]) # {}

\* C10: in the fan-out of index_document a write that raises leaves the writes
\* to the other target collections attempted and unaffected, and agent_results
\* has exactly one entry per target collection: "failed" with the error for
\* each that raised, "success" with chunks_added for each of the others.
C10_FailureIsolation ==
    [][(index_calls' = index_calls + 1 /\ last_result'.status = "completed") =>
          LET call == last_call'
              n == last_result'.total_chunks
              entries == last_result'.agent_results
          IN  /\ DOMAIN entries = TargetsOf(call)
              /\ \A c \in TargetsOf(call) :
                    IF WriteRaises(c, call, n)
                    THEN /\ entries[c].status = "failed"
                         /\ "error" \in DOMAIN entries[c]
                         /\ store'[c] = store[c]
                    ELSE /\ entries[c] = [status |-> "success", chunks_added |-> n]
                         /\ NewIds(call, n) \subseteq IdsOf(store'[c])
                         /\ store[c] \subseteq store'[c]]_vars

\* a fan-out over all collections in which the write to fire_safety raised on
\* the provider and the writes before and after it went through
C10_Witness ==
    /\ last_call.op = "index_document"
    /\ last_result.status = "completed"
    /\ last_call.agent_names = NoAgentNames
    /\ last_result.agent_results["fire_safety"] =
          [status |-> "failed", error |-> "embedding provider error"]
    /\ \A c \in CollectionNames \ {"fire_safety"} :
          /\ last_result.agent_results[c].status = "success"
          /\ NewIds(last_call, last_result.total_chunks) \subseteq IdsOf(store[c])

\* scorer ran on the calculator's output
ScoredAfterCalibration == score_pc = "scored" /\ calibrated_findings # <<>>

StatusesOf(scored) == {scored[i].traffic_light_status : i \in DOMAIN scored}

\* C3: the overall status is red if any scored finding is red, else amber if
\* any is amber, else green; amber for the empty finding set; so green only
\* for a non-empty set of green findings.
C3_Dominance ==
    score_pc = "scored" =>
        /\ scored_findings = <<>> => overall_status = "amber"
        /\ "red" \in StatusesOf(scored_findings) => overall_status = "red"
        /\ ("amber" \in StatusesOf(scored_findings)
               /\ "red" \notin StatusesOf(scored_findings))
              => overall_status = "amber"
        /\ overall_status = "green" <=> StatusesOf(scored_findings) = {"green"}
        /\ overall_status \in {"red", "amber", "green"}

\* findings scored green, amber and red together give overall red
C3_Witness ==
    /\ score_pc = "scored"
    /\ StatusesOf(scored_findings) = {"green", "amber", "red"}
    /\ overall_status = "red"

\* C4: a compliant finding that went through the calculator and then the
\* scorer is green exactly when calibrated_confidence * 100 >= green_threshold.
C4_GreenIffCalibratedAboveThreshold ==
    ScoredAfterCalibration =>
        \A i \in DOMAIN scored_findings :
            Get(scored_findings[i], "is_compliant", TRUE) =>
                (scored_findings[i].traffic_light_status = "green"
                    <=> RGe(RMul(scored_findings[i].calibrated_confidence, R(100, 1)),
                            R(score_args.green_threshold, 1)))

InCalibratedRange(c) == RGe(c, R(1, 10)) /\ RLe(c, R(99, 100))

\* C5: _calibrate_confidence returns a value in [0.1, 0.99] for arguments in
\* [0,1], and so does the calibrated_confidence field of every calibrated finding.
C5_CalibratedInRange ==
    /\ score_pc = "unit" => InCalibratedRange(calib_out)
    /\ \A i \in DOMAIN calibrated_findings :
           InCalibratedRange(calibrated_findings[i].calibrated_confidence)

\* base confidence 1 with every factor 1: the product 1.0 is cut to 0.99
C5_Witness ==
    /\ score_pc = "unit"
    /\ \A k \in DOMAIN calib_in : calib_in[k] = R(1, 1)
    /\ calib_out = R(99, 100)

\* two characters that are the same letter, in either case
SameLetter(a, b) ==
    a = b \/ \E i \in DOMAIN UpperCase : {a, b} = {UpperCase[i], LowerCase[i]}

\* word occurs in t, letter case aside
OccursIn(t, word) ==
    \E i \in 1..(Len(t) - Len(word) + 1) :
        \A j \in 1..Len(word) : SameLetter(t[i + j - 1], word[j])

LabelPresent(req, t) ==
    Get(req, "regulation", <<>>) # <<>> /\ OccursIn(t, Get(req, "regulation", <<>>))

KeywordsOf(req) == Get(req, "keywords", <<>>)

KeywordsPresent(req, t) ==
    {i \in DOMAIN KeywordsOf(req) : OccursIn(t, KeywordsOf(req)[i])}

ConstraintsOf(req) == Get(req, "required_values", <<>>)

ValueSatisfies(v, c) ==
    /\ "min" \in DOMAIN c => RGe(v, c["min"])
    /\ "max" \in DOMAIN c => RLe(v, c["max"])
    /\ "exact" \in DOMAIN c => v = c["exact"]

ExtractedValues(t, value_name) ==
    LET m == finditer(build_value_pattern(value_name), t, 1)
    IN  {float(m[i]) : i \in DOMAIN m}

ConstraintsSatisfied(req, t) ==
    \A i \in DOMAIN ConstraintsOf(req) :
        \E v \in ExtractedValues(t, ConstraintsOf(req)[i][1]) :
            ValueSatisfies(v, ConstraintsOf(req)[i][2])

\* 0.3 for the label, 0.5 x the fraction of keywords present (nothing when the
\* requirement has no keywords), 0.2 when values_bonus, capped at 1
WeightedConfidence(req, t, values_bonus) ==
    LET label == IF LabelPresent(req, t) THEN R(3, 10) ELSE R(0, 1)
        words == IF KeywordsOf(req) = <<>> THEN R(0, 1)
                 ELSE RMul(R(1, 2), R(Cardinality(KeywordsPresent(req, t)),
                                      Len(KeywordsOf(req))))
        bonus == IF values_bonus THEN R(2, 10) ELSE R(0, 1)
    IN  RMin(R(1, 1), RAdd(label, RAdd(words, bonus)))

\* C8 as stated: the confidence of a finding is 0.3 if the regulation label is
\* present, plus 0.5 x the fraction of keywords present, plus 0.2 if numeric
\* constraints are satisfied, capped at 1.0; so 0.55 for a requirement without
\* numeric constraints whose label and 1 of 2 keywords are present.
C8_ConfidenceAsStated ==
    reg_pc = "checked" =>
        checked_finding.confidence =
            WeightedConfidence(checked_requirement, document_text,
                               /\ ConstraintsOf(checked_requirement) # <<>>
                               /\ ConstraintsSatisfied(checked_requirement,
                                                       document_text))

\* C8 amended: the 0.2 is also added when the requirement has no numeric
\* constraints; so 0.75 for a requirement without numeric constraints whose
\* label and 1 of 2 keywords are present.
C8_ConfidenceWithVacuousBonus ==
    reg_pc = "checked" =>
        checked_finding.confidence =
            WeightedConfidence(checked_requirement, document_text,
                               \/ ConstraintsOf(checked_requirement) = <<>>
                               \/ ConstraintsSatisfied(checked_requirement,
                                                       document_text))

\* label present, 1 of 2 keywords present, no numeric constraints: 0.75
C8_Witness ==
    /\ reg_pc = "checked"
    /\ ConstraintsOf(checked_requirement) = <<>>
    /\ LabelPresent(checked_requirement, document_text)
    /\ Len(KeywordsOf(checked_requirement)) = 2
    /\ Cardinality(KeywordsPresent(checked_requirement, document_text)) = 1
    /\ checked_finding.confidence = R(3, 4)

\* C9: is_compliant is true exactly when the regulation label occurs in the
\* text (case-insensitive), at least half of the keywords occur in it, and the
\* requirement has no numeric constraints or each constrained quantity has an
\* extracted value that satisfies all its min/max/exact constraints.
C9_CompliantIff ==
    reg_pc = "checked" =>
        (checked_finding.is_compliant <=>
            /\ LabelPresent(checked_requirement, document_text)
            /\ 2 * Cardinality(KeywordsPresent(checked_requirement, document_text))
                  >= Len(KeywordsOf(checked_requirement))
            /\ \/ ConstraintsOf(checked_requirement) = <<>>
               \/ ConstraintsSatisfied(checked_requirement, document_text))

\* a compliant finding whose label is written in another case in the text,
\* with exactly half of its keywords present and a numeric constraint met
C9_Witness ==
    /\ reg_pc = "checked"
    /\ checked_finding.is_compliant
    /\ ~Contains(document_text, Get(checked_requirement, "regulation", <<>>))
    /\ KeywordsOf(checked_requirement) # <<>>
    /\ 2 * Cardinality(KeywordsPresent(checked_requirement, document_text))
          = Len(KeywordsOf(checked_requirement))
    /\ ConstraintsOf(checked_requirement) # <<>>

Overlaps(a, b) ==
    \E k \in 1..Min(Len(a), Len(b)) : SubSeq(b, 1, k) = LastChars(a, k)

\* C7: when chunk_document returns more than one chunk, every chunk after the
\* first begins with a non-empty string that is a suffix of the chunk before it.
C7_ConsecutiveChunksOverlap ==
    chunk_pc = "done"
        => \A i \in 1..(Len(chunks) - 1) : Overlaps(chunks[i], chunks[i + 1])

\* index_document reported at least one collection write as a success
SomeWriteSucceeded ==
    /\ "agent_results" \in DOMAIN last_result
    /\ \E a \in DOMAIN last_result.agent_results :
          last_result.agent_results[a].status = "success"

\* C11: index_document reports status "completed" if at least one collection
\* write succeeded, and a status other than "completed" when none succeeded
\* (every target collection failed, or no valid target collection was left).
C11_CompletedIffAWriteSucceeded ==
    last_call.op = "index_document" =>
        (last_result.status = "completed" <=> SomeWriteSucceeded)

\* the collection query of a query_for_context call fails
QueryFails(call) ==
    \/ call.agent_name \notin chroma_collections
    \/ call.agent_name \in call.provider_errors

\* C12: query_for_context never propagates an exception: when the collection
\* query fails (provider error, unknown collection name) it returns the empty
\* list, otherwise a list of stored units, and no collection's content is
\* changed by the query.
C12_QueryFailureGivesEmptyList ==
    [][last_call'.op = "query_for_context" =>
          /\ store' = store
          /\ chroma_collections' = chroma_collections
          /\ IF QueryFails(last_call') THEN last_result' = {}
             ELSE last_result' \subseteq store[last_call'.agent_name]]_vars

\* a query whose collection holds units of the asking tenant and whose
\* collection query failed on the provider
C12_Witness ==
    /\ Answered
    /\ last_call.agent_name \in last_call.provider_errors
    /\ last_result = {}
    /\ \E u \in store[last_call.agent_name] :
          MatchesWhere(u, query_where(last_call.tenant_id, last_call.document_id,
                                      last_call.project_id))

\* the units of collection c stored under the key of chunk number k of a call
StoredUnder(c, call, k) ==
    {u \in store[c] : u.id = chunk_key(call.tenant_id, call.document_id, k)}

\* C13: add_document_chunks is idempotent on the composite key (tenant_id,
\* document_id, chunk sequence index): after an add that reaches the
\* collection, the collection holds exactly one unit per key of the call, and
\* that unit carries the text just added (a re-add with new text overwrites).
C13_AddOverwritesOnKey ==
    (/\ last_call.op = "add_document_chunks"
     /\ last_call.agent_name \in chroma_collections
     /\ last_call.agent_name \notin last_call.provider_errors)
        => \A i \in DOMAIN last_call.chunks :
              LET held == StoredUnder(last_call.agent_name, last_call,
                                      last_call.chunks[i].chunk_id)
              IN  /\ Cardinality(held) = 1
                  /\ \A u \in held : u.text = last_call.chunks[i].text

\* the units of collection c whose metadata carries the tenant and document of
\* a delete call
DocumentUnits(c, call) ==
    {u \in store[c] : /\ "tenant_id" \in DOMAIN u.metadata
                      /\ "document_id" \in DOMAIN u.metadata
                      /\ u.metadata.tenant_id = call.tenant_id
                      /\ u.metadata.document_id = call.document_id}

\* C14: delete_document_from_index, when it reports "success", has removed from
\* every collection every unit whose metadata carries the call's tenant_id and
\* document_id, has left every other unit unchanged, and reports the total
\* number of units removed.
C14_DeleteRemovesFromEveryCollection ==
    [][(/\ last_call'.op = "delete_document_from_index"
        /\ last_result'.status = "success")
          => /\ \A c \in CollectionNames :
                   store'[c] = store[c] \ DocumentUnits(c, last_call')
             /\ last_result'.chunks_deleted =
                   Cardinality(UNION {{<<c, u.id>> : u \in DocumentUnits(c, last_call')}
                                         : c \in CollectionNames})]_vars

\* C15: chunk_document drops a chunk shorter than min_chunk_size unless it is
\* the final trailing chunk, which is kept whatever its length; hence every
\* text with a non-whitespace character yields at least one chunk.
C15_MinimumSizeRule ==
    chunk_pc = "done" =>
        /\ \A i \in 1..(Len(chunks) - 1) : Len(chunks[i]) >= MinChunkSize
        /\ (\E i \in DOMAIN text : ~IsSpace(text[i])) => chunks # <<>>

\* C16: index_document called with empty or whitespace-only text returns
\* status "skipped", reason "empty_text", and changes no collection, and
\* chunk_document returns the empty list for such a text.
C16_EmptyTextIsSkipped ==
    [][(/\ last_call'.op = "index_document"
        /\ \A i \in DOMAIN last_call'.text : IsSpace(last_call'.text[i]))
          => /\ last_result' = [document_id |-> last_call'.document_id,
                                status |-> "skipped", reason |-> "empty_text"]
             /\ store' = store
             /\ chunk_document(last_call'.text) = <<>>]_vars

\* a whitespace-only text handed to index_document once the collections exist
C16_Witness ==
    /\ last_call.op = "index_document"
    /\ last_call.text = <<" ">>
    /\ chroma_collections = CollectionNames
    /\ last_result.status = "skipped"

\* the fixed priority order of the document types
TypeOrder ==
    <<"drawing", "fire_strategy", "calculation", "specification", "certificate",
      "schedule">>

\* the indicators of a document type occur in the text or filename
MatchesType(type, t, filename) ==
    LET tl == lower(t)
        fl == lower(filename)
    IN  CASE type = "drawing" ->
                \/ AnyIn(DrawingWords, tl)
                \/ AnyIn(DrawingExtensions, fl) /\ Contains(fl, <<"d", "r", "g">>)
          [] type = "fire_strategy" ->
                Contains(tl, <<"f", "i", "r", "e", " ", "s", "a", "f", "e", "t", "y", " ", "s", "t", "r", "a", "t", "e", "g", "y">>) \/ Contains(tl, <<"f", "i", "r", "e", " ", "e", "n", "g", "i", "n", "e", "e", "r", "i", "n", "g">>)
          [] type = "calculation" -> AnyIn(CalculationWords, tl)
          [] type = "specification" ->
                Contains(tl, <<"s", "p", "e", "c", "i", "f", "i", "c", "a", "t", "i", "o", "n">>) \/ Contains(tl, <<"c", "l", "a", "u", "s", "e">>)
          [] type = "certificate" ->
                Contains(tl, <<"c", "e", "r", "t", "i", "f", "i", "c", "a", "t", "e">>) \/ Contains(tl, <<"c", "e", "r", "t", "i", "f", "i", "e", "d", " ", "t", "h", "a", "t">>)
          [] type = "schedule" ->
                Contains(tl, <<"s", "c", "h", "e", "d", "u", "l", "e">>) /\ AnyIn(ScheduleWords, tl)

\* the first type of the order whose indicators occur, "report" when none does
FirstMatchingType(t, filename) ==
    LET matching == {k \in DOMAIN TypeOrder : MatchesType(TypeOrder[k], t, filename)}
    IN  IF matching = {} THEN "report"
        ELSE TypeOrder[CHOOSE k \in matching : \A j \in matching : k <= j]

\* C17: _classify_document_type returns a document type for every text and
\* filename: the first matching type in the order drawing, fire_strategy,
\* calculation, specification, certificate, schedule, and "report" when none
\* matches.
C17_FirstMatchingTypeWins ==
    classify_pc = "done" =>
        document_type = FirstMatchingType(classified_text, classified_filename)

\* the templates of a requirements list that carry the tag of the discipline
TaggedFor(requirements, agent_type) ==
    SelectSeq(requirements,
              LAMBDA req : "agent_type" \in DOMAIN req /\ req.agent_type = agent_type)

\* the id a finding gets from its template
FindingIdOf(req) ==
    Get(req, "id", <<Get(req, "regulation", <<>>), Get(req, "requirement", <<>>)>>)

\* C18: RegulationChecker.build invoked for agent_type D produces its findings
\* from the templates tagged D, one finding per such template in list order;
\* a template tagged with another discipline or carrying no tag produces no
\* finding.
C18_OnlyTemplatesTaggedD ==
    reg_pc = "built" =>
        LET tagged == TaggedFor(requirements_list, build_result.agent_type)
            produced == build_result.compliance_findings
        IN  /\ Len(produced) = Len(tagged)
            /\ \A i \in DOMAIN produced : produced[i].id = FindingIdOf(tagged[i])

\* a template that has its regulation label and its keyword list
WellFormed(req) == "regulation" \in DOMAIN req /\ "keywords" \in DOMAIN req

\* C19: a requirement template missing required fields (no regulation label or
\* no keyword list) is skipped by build: it produces no finding, and the
\* findings are those of the well-formed templates of the batch that build
\* keeps for the discipline, in list order.
C19_MalformedTemplatesAreSkipped ==
    reg_pc = "built" =>
        LET kept == SelectSeq(relevant_requirements(requirements_list,
                                                    build_result.agent_type),
                              WellFormed)
            produced == build_result.compliance_findings
        IN  /\ Len(produced) = Len(kept)
            /\ \A i \in DOMAIN produced : produced[i].id = FindingIdOf(kept[i])

AddsUnit == \E c \in CollectionNames : ~(store'[c] \subseteq store[c])

\* C21: reindex_document is delete-then-index: its delete step returns before
\* any unit is added, its index step runs whatever the delete step returned,
\* and the two outcomes are returned apart under "deleted" and "indexed".
C21_DeleteThenIndex ==
    [][/\ (~Reindexing /\ Reindexing')
            => /\ ~AddsUnit
               /\ last_result'.first =
                      delete_document_from_index(
                          [last_call' EXCEPT !.provider_errors = last_call'.delete_errors],
                          store, chroma_collections).result
               /\ store' = delete_document_from_index(
                               [last_call' EXCEPT !.provider_errors = last_call'.delete_errors],
                               store, chroma_collections).store
       /\ (Reindexing /\ AddsUnit) => "first" \in DOMAIN last_result
       /\ (Reindexing /\ ~ReindexReturned)
            => LET out == index_document(last_call, store, chroma_collections,
                                        on_duplicate)
               IN  /\ store' = out.store
                   /\ last_result'.status = "completed"
                   /\ last_result'.deleted = last_result.first
                   /\ last_result'.indexed = out.result]_vars

\* a reindex whose delete step was failed by one collection and removed units
\* from the others, and whose index step then wrote the document again
C21_Witness ==
    /\ ReindexReturned
    /\ last_call.delete_errors # {}
    /\ last_result.deleted.chunks_deleted > 0
    /\ last_result.indexed.status = "completed"
    /\ last_result.indexed.agents_indexed > 0

\* the length that stands for 4500 characters at chunk_size 2000 and
\* chunk_overlap 500: three strides of chunk_size - chunk_overlap
ThreeStrides == 3 * (ChunkSize - ChunkOverlap)

\* a normalised text of that length without a paragraph break
SingleParagraph(t) ==
    /\ Len(t) = ThreeStrides
    /\ normalize_text(t) = t
    /\ Len(split_into_paragraphs(t)) = 1

\* a text without whitespace
Unbroken(t) == \A i \in DOMAIN t : ~IsSpace(t[i])

\* b begins with a
StartsWith(b, a) == Len(a) <= Len(b) /\ SubSeq(b, 1, Len(a)) = a

\* every chunk after the first begins with the overlap text of the one before
StartsWithOverlapOfPrevious(cs) ==
    \A i \in 2..Len(cs) : StartsWith(cs[i], get_overlap_text(cs[i - 1]))

\* C22 as stated: a single-paragraph document of three strides (4500
\* characters at chunk_size 2000, chunk_overlap 500) yields exactly 3 chunks
\* whatever its sentence structure, chunks 2 and 3 each beginning with the
\* sentence-trimmed overlap text of the chunk before.
C22_ThreeChunksWhateverTheSentences ==
    (chunk_pc = "done" /\ SingleParagraph(text))
        => /\ Len(chunks) = 3
           /\ StartsWithOverlapOfPrevious(chunks)

\* C22 amended: an unbroken single-paragraph document of three strides is
\* hard split into 3 chunks, the third kept when its chunk_size -
\* chunk_overlap characters reach min_chunk_size (2 chunks otherwise), each
\* chunk after the first beginning with the overlap text of the one before.
C22_UnbrokenTextYieldsThreeChunks ==
    (chunk_pc = "done" /\ SingleParagraph(text) /\ Unbroken(text))
        => /\ Len(chunks) =
                  IF ChunkSize - ChunkOverlap >= MinChunkSize THEN 3 ELSE 2
           /\ StartsWithOverlapOfPrevious(chunks)

\* an unbroken document of three strides was chunked into three chunks
C22_Witness ==
    /\ chunk_pc = "done"
    /\ SingleParagraph(text)
    /\ Unbroken(text)
    /\ Len(chunks) = 3

\* the page number of every chunk of a text, in list order: each page's number
\* once for every chunk chunk_document cuts from it
RECURSIVE PagesOfChunks(_, _)
PagesOfChunks(pts, i) ==
    IF i > Len(pts) THEN <<>>
    ELSE [j \in 1..Len(chunk_document(pts[i].page_text)) |-> pts[i].page_num]
         \o PagesOfChunks(pts, i + 1)

\* C23: chunk_with_page_context returns chunks whose chunk_id and metadata
\* chunk_index are 0, 1, ..., n-1 in list order across all pages, so no two
\* chunks of a document share a sequence index (or a composite key), and each
\* chunk carries the page_number of the page it was cut from.
C23_GlobalNumberingAndPageNumbers ==
    chunk_pc = "paged" =>
        LET pages_of_chunks == PagesOfChunks(page_texts(text), 1)
        IN  /\ Len(chunks) = Len(pages_of_chunks)
            /\ \A i \in DOMAIN chunks :
                   /\ chunks[i].chunk_id = i - 1
                   /\ chunks[i].metadata.chunk_index = i - 1
                   /\ chunks[i].metadata.page_number = pages_of_chunks[i]
            /\ \A i, j \in DOMAIN chunks :
                   i # j => chunk_key("tenant-a", "doc-1", chunks[i].chunk_id)
                              # chunk_key("tenant-a", "doc-1", chunks[j].chunk_id)

\* the place of an evidence type in the priority order
Priority(type) ==
    CASE type = "regulation_reference" -> 1
      [] type = "keyword_match" -> 2
      [] type = "technical_specification" -> 3
      [] type = "calculation" -> 4

\* the number of items of a type in the returned evidence
EvidenceCount(type) ==
    Cardinality({k \in DOMAIN evidence_items : evidence_items[k].type = type})

\* C24: _extract_evidence_for_finding returns at most max_quotes items in
\* priority order: at most 2 regulation references, then keyword matches within
\* the budget the references left, then at most 2 technical specifications,
\* then calculations only for a finding with requires_calculation; a type is
\* present only if the types before it left budget.
C24_EvidenceCapAndPriority ==
    evidence_pc = "done" =>
        LET max_quotes == evidence_call.max_quotes
            mentions == match_spans(
                            <<Lit(lower(Get(evidence_call.finding, "regulation",
                                            <<>>)))>>,
                            evidence_document, 1)
        IN  /\ Len(evidence_items) <= max_quotes
            /\ \A i, j \in DOMAIN evidence_items :
                   i < j => Priority(evidence_items[i].type)
                              <= Priority(evidence_items[j].type)
            /\ EvidenceCount("regulation_reference") <= 2
            /\ "regulation" \in DOMAIN evidence_call.finding
                   => EvidenceCount("regulation_reference")
                         = Min(max_quotes, Min(2, Len(mentions)))
            /\ EvidenceCount("keyword_match")
                   <= max_quotes - EvidenceCount("regulation_reference")
            /\ EvidenceCount("technical_specification") <= 2
            /\ EvidenceCount("calculation") > 0
                   => Get(evidence_call.finding, "requires_calculation", FALSE)
            /\ \A k \in DOMAIN evidence_items :
                   Priority(evidence_items[k].type) > 1 => k <= max_quotes

\* a call whose budget was used up by a regulation reference, a keyword match
\* and two technical specifications, the calculation it asked for left out
C24_Witness ==
    /\ evidence_pc = "done"
    /\ Len(evidence_items) = evidence_call.max_quotes
    /\ EvidenceCount("regulation_reference") = 1
    /\ EvidenceCount("keyword_match") = 1
    /\ EvidenceCount("technical_specification") = 2
    /\ Get(evidence_call.finding, "requires_calculation", FALSE)

\* how often x occurs in the list s
Occurrences(s, x) == Cardinality({k \in DOMAIN s : s[k] = x})

\* b holds the elements of a, each as often as a does
IsReordering(a, b) ==
    /\ Len(a) = Len(b)
    /\ \A k \in DOMAIN a : Occurrences(a, a[k]) = Occurrences(b, a[k])

\* b is a with the discipline that the document type promotes at the front
PromotedReordering(a, b, doc_type) ==
    /\ IsReordering(a, b)
    /\ \A k \in DOMAIN priority_map(doc_type) :
           Occurrences(a, priority_map(doc_type)[k]) > 0
               => b[1] = priority_map(doc_type)[k]

\* C25: agent routing returns the discipline list verbatim, and
\* _prioritize_agents returns a reordering of the list it is given (no element
\* added, none removed) with the discipline of the document type
\* (fire_safety for fire_strategy, structural for calculation) at the front.
C25_RoutingVerbatimPriorityReorders ==
    /\ (routing_pc = "built" /\ ~routing_result.raised)
            => /\ routing_result.agents_to_invoke = routing_result.disciplines
               /\ PromotedReordering(
                      routing_result.agents_to_invoke,
                      routing_result.routing_instructions.priority_agents,
                      routing_result.document_type)
    /\ routing_pc = "prioritized"
            => PromotedReordering(routing_call.agents, routing_result,
                                  routing_call.document_type)

\* C28: every discipline the classifier puts in agents_to_invoke, the
\* sentinel requires_manual_classification apart, names an existing
\* collection, so index_document called with agent_names = agents_to_invoke
\* writes to the collection of every detected discipline and drops none.
C28_DetectedDisciplinesAreCollections ==
    (routing_pc \in {"built", "indexed"} /\ ~routing_result.raised)
        => \A k \in DOMAIN routing_result.agents_to_invoke :
              LET discipline == routing_result.agents_to_invoke[k]
              IN  discipline # ManualClassification
                     => /\ discipline \in CollectionNames
                        /\ routing_pc = "indexed"
                               => /\ discipline \in DOMAIN last_result.agent_results
                                  /\ store[discipline] # {}

\* C26: the verdict determine_overall_status sets, and run_ai_analysis
\* stores, follows dominance: red if any finding is red, otherwise amber if
\* any is amber, and green only when there is at least one finding and every
\* finding is green.
C26_VerdictDominance ==
    agent_pc \in {"determined", "stored"} =>
        LET verdict == IF agent_pc = "stored" /\ "error" \notin DOMAIN stored_findings
                       THEN stored_findings.overall_status
                       ELSE agent_verdict.overall_status
            any(status) == \E k \in DOMAIN agent_findings :
                              status_of_finding(agent_findings[k]) = status
        IN  /\ any(RedStatus) => verdict = "red"
            /\ (~any(RedStatus) /\ any(AmberStatus)) => verdict = "amber"
            /\ verdict = "green"
                   => /\ agent_findings # <<>>
                      /\ \A k \in DOMAIN agent_findings :
                             status_of_finding(agent_findings[k]) = GreenStatus

\* C27: every unit index_document writes is stored with tenant_id,
\* document_id and project_id metadata equal to the arguments of the call;
\* keys of the same name in the caller's document metadata do not replace them.
C27_ScopeKeysComeFromTheCall ==
    [][last_call'.op = "index_document"
          => \A c \in CollectionNames : \A unit \in store'[c] \ store[c] :
                /\ unit.metadata.tenant_id = last_call'.tenant_id
                /\ unit.metadata.document_id = last_call'.document_id
                /\ unit.metadata.project_id = last_call'.project_id]_vars

\* C29: chunk_text terminates: on every iteration of its loop the start
\* position strictly increases, also when the chunk is cut at a sentence
\* boundary less than chunk_overlap characters after start.
C29_StartStrictlyIncreases ==
    [][proc_pc = "loop" => proc_start' > proc_start]_vars

\* C30: for one bucket key and with no refill in between, check_rate_limit
\* allows no more calls than the bucket held tokens, under any interleaving
\* of concurrent calls (no Redis error taken into account).
C30_AllowedWithinTokens ==
    (rate_pc = "enabled" /\ rate_now = 0 /\ rate_failures = 0)
        => rate_allowed <= rate_budget

===========================================================================
